---- MODULE Spec2Model ----
(***************************************************************************)
(* Multi-agent handoff and context truncation of the voice-agent examples  *)
(* (customer_support_agent.py, real_estate_agent.py).                      *)
(*                                                                         *)
(* The specifications share the variables:                                 *)
(*   TruncSpec     one call of BaseAgent._truncate_chat_ctx on a bounded   *)
(*                 input drawn by its Init;                                *)
(*   Spec          a conversation of either script, from entrypoint on;    *)
(*   ConfigSpec    the same with a registry that may lack one agent;       *)
(*   RealtimeSpec  the same with a realtime model as the session's llm;    *)
(*   FairSpec      a conversation through the caller's first turn, with    *)
(*                 the fairness of the session's turn loop;                *)
(*   PairSpec      two conversations of one script side by side.           *)
(***************************************************************************)
EXTENDS Integers, Sequences, FiniteSets, TLC

VARIABLES
    call,           \* TruncSpec: the arguments of one _truncate_chat_ctx call
    new_items,      \* TruncSpec: the list it returned
    tpc,            \* TruncSpec: "called" | "returned" ("off" under Spec)
    script,         \* which example runs: "support" | "realestate" ("none" under TruncSpec)
    userdata,       \* the UserData record of the session (registry and prev_agent included)
    current_agent,  \* session.current_agent
    chat_ctx,       \* agent -> its chat_ctx.items
    next_id,        \* next fresh item id
    result,         \* what the last tool operation returned or raised
    pc,             \* driver position: "enter" | "announce" | "idle" | "llm" ("off" under TruncSpec)
    steps,          \* tool round trips dispatched in the current turn
    session_llm,    \* session.llm: "LLM" | "RealtimeModel" ("none" under TruncSpec)
    objects,        \* identity of each mutable object the conversation's entrypoint built
    peer,           \* a second conversation of the same process, if one was started
    budget          \* item ids the conversation hands out before the run is cut off

\* ------------------------------------------------------------------ bounds
\* Longest item list handed to _truncate_chat_ctx by TruncSpec.
MaxLen == 4
\* Largest keep_last_n_messages drawn by TruncSpec.
MaxKeep == 3
\* Number of distinct tool-call ids in TruncSpec's inputs.
MaxCalls == 1

\* ------------------------------------------------------------- chat items
\* llm.ChatItem: type is "message", "function_call" or "function_call_output";
\* role is meaningful for messages; call_id pairs a call with its output.
ToolTypes == {"function_call", "function_call_output"}

NoContent == [agent |-> "none"]

Message(id, role) ==
    [id |-> id, type |-> "message", role |-> role, call_id |-> 0, content |-> NoContent]

FunctionCall(id, call_id) ==
    [id |-> id, type |-> "function_call", role |-> "none", call_id |-> call_id,
     content |-> NoContent]

FunctionCallOutput(id, call_id) ==
    [id |-> id, type |-> "function_call_output", role |-> "none", call_id |-> call_id,
     content |-> NoContent]

\* ------------------------------------------------- _truncate_chat_ctx
valid_item_keep_all(item, keep_system_message, keep_function_call) == TRUE

valid_item(item, keep_system_message, keep_function_call) ==
    IF ~keep_system_message /\ item.type = "message" /\ item.role = "system"
    THEN FALSE
    ELSE IF ~keep_function_call /\ item.type \in ToolTypes
         THEN FALSE
         ELSE TRUE

\* for item in reversed(items): append if valid; break once len >= n.
\* The length test follows every item, valid or not.
RECURSIVE ScanReversedStrict(_, _, _, _, _, _)
ScanReversedStrict(items, i, acc, n, ks, kf) ==
    IF i = 0 THEN acc
    ELSE LET nxt == IF valid_item(items[i], ks, kf) THEN Append(acc, items[i]) ELSE acc
         IN  IF Len(nxt) > n THEN nxt
             ELSE ScanReversedStrict(items, i - 1, nxt, n, ks, kf)

RECURSIVE ScanReversed(_, _, _, _, _, _)
ScanReversed(items, i, acc, n, ks, kf) ==
    IF i = 0 THEN acc
    ELSE LET nxt == IF valid_item(items[i], ks, kf) THEN Append(acc, items[i]) ELSE acc
         IN  IF Len(nxt) >= n THEN nxt
             ELSE ScanReversed(items, i - 1, nxt, n, ks, kf)

\* new_items[::-1]
Reversed(s) == [i \in 1..Len(s) |-> s[Len(s) + 1 - i]]

DropLeadingOutputsOnly(s) ==
    IF s # <<>> /\ s[1].type = "function_call_output" THEN Tail(s) ELSE s

\* while new_items and new_items[0].type in [...]: new_items.pop(0)
RECURSIVE DropLeadingToolItems(_)
DropLeadingToolItems(s) ==
    IF s # <<>> /\ s[1].type \in ToolTypes
    THEN DropLeadingToolItems(Tail(s))
    ELSE s

truncate_chat_ctx(items, keep_last_n_messages, keep_system_message, keep_function_call) ==
    DropLeadingToolItems(
        Reversed(ScanReversed(items, Len(items), <<>>, keep_last_n_messages,
                              keep_system_message, keep_function_call)))

\* ------------------------------------------------------- optional values
\* Optional[T]: None is the empty tuple, a value v is <<v>>.
None == <<>>

Some(v) == <<v>>

\* Python truthiness of an Optional[str]: None and "" are falsy.
Truthy(opt) == opt # None /\ opt[1] # ""

\* A dump that drops the value and always writes the placeholder.
OrUnknownAlways(opt) == "unknown"

\* `x or "unknown"`
OrUnknown(opt) == IF Truthy(opt) THEN opt[1] ELSE "unknown"

\* ------------------------------------------- customer support: UserData
SupportAgents ==
    {"InitialSupport", "ReturnsAgent", "TechnicalAgent", "BillingAgent", "ManagerAgent"}

\* A registry whose manager is filed under another key than the tools use.
SupportRegistryMisnamed ==
    [name \in {"initial", "returns", "technical", "billing", "supervisor"} |->
        CASE name = "initial"    -> "InitialSupport"
          [] name = "returns"    -> "ReturnsAgent"
          [] name = "technical"  -> "TechnicalAgent"
          [] name = "billing"    -> "BillingAgent"
          [] name = "supervisor" -> "ManagerAgent"]

\* userdata.agents.update({...}) in entrypoint
SupportRegistry ==
    [name \in {"initial", "returns", "technical", "billing", "manager"} |->
        CASE name = "initial"   -> "InitialSupport"
          [] name = "returns"   -> "ReturnsAgent"
          [] name = "technical" -> "TechnicalAgent"
          [] name = "billing"   -> "BillingAgent"
          [] name = "manager"   -> "ManagerAgent"]

IssueType == {"return", "technical", "billing", "other"}

\* PRODUCT_DATABASE: the product ids, and those whose categories hold "Subscription"
ProductIds == {"P001", "P002", "P003", "P004"}

SubscriptionIds == {"P004"}

\* UserData() with its dataclass defaults
SupportUserData(registry) ==
    [customer_name |-> None, customer_email |-> None, customer_phone |-> None,
     order_number |-> None, product_id |-> None, issue_type |-> None,
     issue_description |-> None,
     return_reason |-> None, return_approved |-> FALSE, return_label_sent |-> FALSE,
     refund_amount |-> None, refund_approved |-> FALSE,
     escalated |-> FALSE, escalation_reason |-> None,
     satisfaction_rating |-> None,
     agents |-> registry, prev_agent |-> None]

\* UserData.summarize: the mapping handed to yaml.dump
SupportSummarize(ud) ==
    [customer_info |->
        [name |-> OrUnknown(ud.customer_name),
         email |-> OrUnknown(ud.customer_email),
         phone |-> OrUnknown(ud.customer_phone)],
     issue_details |->
        [order_number |-> OrUnknown(ud.order_number),
         product_id |-> OrUnknown(ud.product_id),
         issue_type |-> OrUnknown(ud.issue_type),
         description |-> OrUnknown(ud.issue_description)],
     return_status |->
        IF ud.issue_type = Some("return")
        THEN Some([reason |-> ud.return_reason,
                   approved |-> ud.return_approved,
                   label_sent |-> ud.return_label_sent])
        ELSE None,
     billing_status |->
        IF ud.issue_type = Some("billing")
        THEN Some([refund_amount |-> ud.refund_amount,
                   approved |-> ud.refund_approved])
        ELSE None,
     escalation |-> [escalated |-> ud.escalated, reason |-> ud.escalation_reason],
     satisfaction |-> ud.satisfaction_rating]

\* ------------------------------------------------ tool operation results
\* A tool operation yields the UserData it leaves behind and what it returned:
\* a narrated string, an (Agent, string) pair, or the exception it raised.
Narrated(ud, text) ==
    [userdata |-> ud,
     result |-> [kind |-> "str", agent |-> "none", name |-> "", text |-> text]]

\* (next_agent, f"Transferring to {name}.")
HandoffTo(ud, agent, name) ==
    [userdata |-> ud,
     result |-> [kind |-> "handoff", agent |-> agent, name |-> name,
                 text |-> "Transferring to"]]

\* KeyError(name), raised by userdata.agents[name]
Raised(ud, name) ==
    [userdata |-> ud,
     result |-> [kind |-> "error", agent |-> "none", name |-> name, text |-> "KeyError"]]

\* A lookup that falls back to a narrated reply instead of raising.
transfer_to_agent_soft(ud, cur, name) ==
    IF name \in DOMAIN ud.agents
    THEN HandoffTo([ud EXCEPT !.prev_agent = Some(cur)], ud.agents[name], name)
    ELSE [userdata |-> ud,
          result |-> [kind |-> "str", agent |-> "none", name |-> name,
                      text |-> "Transferring to"]]

\* A handoff that records the agent handed over to as the previous agent.
transfer_to_agent_prev_target(ud, cur, name) ==
    IF name \in DOMAIN ud.agents
    THEN HandoffTo([ud EXCEPT !.prev_agent = Some(ud.agents[name])], ud.agents[name], name)
    ELSE Raised(ud, name)

\* A handoff that takes the agent out of the registry (agents.pop(name)).
transfer_to_agent_pop(ud, cur, name) ==
    IF name \in DOMAIN ud.agents
    THEN HandoffTo([ud EXCEPT !.prev_agent = Some(cur),
                              !.agents = [k \in DOMAIN ud.agents \ {name} |-> ud.agents[k]]],
                   ud.agents[name], name)
    ELSE Raised(ud, name)

\* BaseAgent._transfer_to_agent: the registry lookup raises KeyError before
\* prev_agent is written.
transfer_to_agent(ud, cur, name) ==
    IF name \in DOMAIN ud.agents
    THEN HandoffTo([ud EXCEPT !.prev_agent = Some(cur)], ud.agents[name], name)
    ELSE Raised(ud, name)

\* ------------------------------------------- customer support: the tools
update_customer_info(ud, name, email, phone) ==
    LET ud1 == IF Truthy(name) THEN [ud EXCEPT !.customer_name = name] ELSE ud
        ud2 == IF Truthy(email) THEN [ud1 EXCEPT !.customer_email = email] ELSE ud1
        ud3 == IF Truthy(phone) THEN [ud2 EXCEPT !.customer_phone = phone] ELSE ud2
    IN  Narrated(ud3, "Thank you, I've updated your")

record_satisfaction(ud, rating) ==
    LET ud1 == [ud EXCEPT !.satisfaction_rating = Some(rating)]
    IN  IF rating >= 4 THEN Narrated(ud1, "Thank you for your positive feedback!")
        ELSE IF rating = 3 THEN Narrated(ud1, "Thank you for your feedback.")
        ELSE Narrated(ud1, "I'm sorry to hear that.")

identify_issue(ud, order_number, product_id, issue_type, description) ==
    LET ud1 == IF Truthy(order_number) THEN [ud EXCEPT !.order_number = order_number] ELSE ud
        ud2 == IF Truthy(product_id) THEN [ud1 EXCEPT !.product_id = product_id] ELSE ud1
        ud3 == [ud2 EXCEPT !.issue_type = Some(issue_type),
                           !.issue_description = Some(description)]
    IN  Narrated(ud3, "Thank you for providing those details.")

InitialSupport_to_returns(ud, cur) ==
    LET ud1 == IF ~Truthy(ud.issue_type) THEN [ud EXCEPT !.issue_type = Some("return")] ELSE ud
    IN  transfer_to_agent(ud1, cur, "returns")

InitialSupport_to_technical(ud, cur) ==
    LET ud1 == IF ~Truthy(ud.issue_type) THEN [ud EXCEPT !.issue_type = Some("technical")] ELSE ud
    IN  transfer_to_agent(ud1, cur, "technical")

InitialSupport_to_billing(ud, cur) ==
    LET ud1 == IF ~Truthy(ud.issue_type) THEN [ud EXCEPT !.issue_type = Some("billing")] ELSE ud
    IN  transfer_to_agent(ud1, cur, "billing")

InitialSupport_to_manager(ud, cur) ==
    LET ud1 == [ud EXCEPT !.escalated = TRUE,
                          !.escalation_reason = Some("Customer requested manager")]
    IN  transfer_to_agent(ud1, cur, "manager")

process_return_unguarded(ud, return_reason) ==
    Narrated([ud EXCEPT !.return_reason = Some(return_reason), !.return_approved = TRUE],
             "Thank you for providing that information.")

process_return(ud, return_reason) ==
    IF ~Truthy(ud.order_number) \/ ~Truthy(ud.product_id)
    THEN Narrated(ud, "Before I can process your return, I'll need your order number and the product ID.")
    ELSE IF ud.product_id[1] \notin ProductIds
    THEN Narrated(ud, "I'm unable to find product ID")
    ELSE IF ud.product_id[1] \in SubscriptionIds
    THEN Narrated(ud, "This appears to be a subscription service")
    ELSE Narrated([ud EXCEPT !.return_reason = Some(return_reason), !.return_approved = TRUE],
                  "Thank you for providing that information.")

\* A label sent once the return is approved, whether or not an email is on record.
send_return_label_without_email(ud) ==
    IF ~ud.return_approved
    THEN Narrated(ud, "I see that your return hasn't been approved yet.")
    ELSE Narrated([ud EXCEPT !.return_label_sent = TRUE],
                  "Great! I've sent a return shipping label to")

send_return_label(ud) ==
    IF ~ud.return_approved
    THEN Narrated(ud, "I see that your return hasn't been approved yet.")
    ELSE IF ~Truthy(ud.customer_email)
    THEN Narrated(ud, "I'll need your email address to send the return label.")
    ELSE Narrated([ud EXCEPT !.return_label_sent = TRUE],
                  "Great! I've sent a return shipping label to")

\* A handoff tool of the returns agent that names the returns agent itself.
ReturnsAgent_to_returns(ud, cur) == transfer_to_agent(ud, cur, "returns")

ReturnsAgent_to_initial(ud, cur) == transfer_to_agent(ud, cur, "initial")

ReturnsAgent_to_billing(ud, cur) == transfer_to_agent(ud, cur, "billing")

ReturnsAgent_to_manager(ud, cur) ==
    LET ud1 == [ud EXCEPT !.escalated = TRUE,
                          !.escalation_reason = Some("Complex return issue")]
    IN  transfer_to_agent(ud1, cur, "manager")

\* The reply depends on keywords of the description; UserData is only read.
troubleshoot_issue(ud) ==
    IF ~Truthy(ud.product_id) /\ ~Truthy(ud.issue_description)
    THEN Narrated(ud, "To help troubleshoot your issue, I'll need more details")
    ELSE Narrated(ud, "troubleshooting steps")

escalate_technical_issue(ud, cur, reason) ==
    LET ud1 == [ud EXCEPT !.escalated = TRUE, !.escalation_reason = Some(reason)]
    IN  transfer_to_agent(ud1, cur, "manager")

TechnicalAgent_to_initial(ud, cur) == transfer_to_agent(ud, cur, "initial")

TechnicalAgent_to_returns(ud, cur) == transfer_to_agent(ud, cur, "returns")

\* process_refund without its customer_email check.
process_refund_without_email(ud, amount) ==
    IF ~Truthy(ud.order_number)
    THEN Narrated(ud, "Before I can process a refund, I'll need your order number.")
    ELSE Narrated([ud EXCEPT !.refund_amount = Some(amount), !.refund_approved = TRUE],
                  "I've processed a refund of")

process_refund(ud, amount) ==
    IF ~Truthy(ud.order_number)
    THEN Narrated(ud, "Before I can process a refund, I'll need your order number.")
    ELSE IF ~Truthy(ud.customer_email)
    THEN Narrated(ud, "I'll need your email address to process the refund.")
    ELSE Narrated([ud EXCEPT !.refund_amount = Some(amount), !.refund_approved = TRUE],
                  "I've processed a refund of")

manage_subscription(ud, action) ==
    IF ~Truthy(ud.customer_email)
    THEN Narrated(ud, "I'll need your email address to locate your subscription.")
    ELSE IF action = "cancel" THEN Narrated(ud, "I've cancelled your subscription.")
    ELSE IF action = "pause" THEN Narrated(ud, "I've paused your subscription for 30 days.")
    ELSE IF action = "resume" THEN Narrated(ud, "I've resumed your subscription.")
    ELSE Narrated(ud, "I'm not sure what action you want to take on your subscription.")

BillingAgent_to_initial(ud, cur) == transfer_to_agent(ud, cur, "initial")

\* A handoff to the manager that does not record the escalation.
BillingAgent_to_manager_unrecorded(ud, cur) == transfer_to_agent(ud, cur, "manager")

BillingAgent_to_manager(ud, cur) ==
    LET ud1 == [ud EXCEPT !.escalated = TRUE,
                          !.escalation_reason = Some("Complex billing issue")]
    IN  transfer_to_agent(ud1, cur, "manager")

resolve_escalated_issue(ud, resolution, special_accommodation) ==
    IF ~ud.escalated
    THEN Narrated(ud, "I'm not seeing any escalated issue in our system.")
    ELSE Narrated(ud, "I understand this has been a frustrating experience")

ManagerAgent_to_initial(ud, cur) == transfer_to_agent(ud, cur, "initial")

ManagerAgent_to_returns(ud, cur) == transfer_to_agent(ud, cur, "returns")

ManagerAgent_to_technical(ud, cur) == transfer_to_agent(ud, cur, "technical")

ManagerAgent_to_billing(ud, cur) == transfer_to_agent(ud, cur, "billing")

\* ------------------------------------------------ real estate: UserData
RealEstateAgents == {"Greeter", "PropertyFinder", "ViewingScheduler", "MortgageAdvisor"}

\* userdata.agents.update({...}) in entrypoint
RealEstateRegistry ==
    [name \in {"greeter", "propertyFinder", "viewingScheduler", "mortgageAdvisor"} |->
        CASE name = "greeter"          -> "Greeter"
          [] name = "propertyFinder"   -> "PropertyFinder"
          [] name = "viewingScheduler" -> "ViewingScheduler"
          [] name = "mortgageAdvisor"  -> "MortgageAdvisor"]

\* PROPERTY_DATABASE, the fields the tools read; addresses and types lower-cased
\* as the tools compare them.
PROPERTY_DATABASE ==
    << [id |-> "P001", address |-> "123 main street", price |-> 350000, bedrooms |-> 3,
        bathrooms |-> 2, type |-> "single family home"],
       [id |-> "P002", address |-> "456 oak avenue", price |-> 275000, bedrooms |-> 2,
        bathrooms |-> 2, type |-> "condo"],
       [id |-> "P003", address |-> "789 pine road", price |-> 425000, bedrooms |-> 4,
        bathrooms |-> 3, type |-> "single family home"],
       [id |-> "P004", address |-> "101 river lane", price |-> 550000, bedrooms |-> 5,
        bathrooms |-> 4, type |-> "luxury home"] >>

\* str.lower() on the strings the inputs are drawn from
Lower(s) ==
    CASE s = "123 Main Street" -> "123 main street"
      [] s = "456 Oak Avenue"  -> "456 oak avenue"
      [] s = "Condo"           -> "condo"
      [] OTHER                 -> s

\* Python truthiness of an Optional[int]: None and 0 are falsy.
TruthyNum(opt) == opt # None /\ opt[1] # 0

\* UserData() with its dataclass defaults
RealEstateUserData(registry) ==
    [customer_name |-> None, customer_phone |-> None, customer_email |-> None,
     property_preferences |->
        [min_price |-> None, max_price |-> None, min_bedrooms |-> None,
         min_bathrooms |-> None, property_type |-> None, location |-> None],
     viewed_properties |-> <<>>, interested_properties |-> <<>>,
     viewing_date |-> None, viewing_time |-> None,
     prequalified |-> FALSE, prequalified_amount |-> None,
     agents |-> registry, prev_agent |-> None]

\* UserData.summarize: the mapping handed to yaml.dump
RealEstateSummarize(ud) ==
    [customer_name |-> OrUnknown(ud.customer_name),
     customer_phone |-> OrUnknown(ud.customer_phone),
     customer_email |-> OrUnknown(ud.customer_email),
     property_preferences |-> ud.property_preferences,
     viewed_properties |-> ud.viewed_properties,
     interested_properties |-> ud.interested_properties,
     viewing_scheduled |->
        IF Truthy(ud.viewing_date)
        THEN Some([date |-> ud.viewing_date, time |-> ud.viewing_time])
        ELSE None,
     prequalified |-> [status |-> ud.prequalified, amount |-> ud.prequalified_amount]]

\* --------------------------------------------------- real estate: the tools
update_name(ud, name) ==
    Narrated([ud EXCEPT !.customer_name = Some(name)], "Thank you. I've updated your name")

update_phone(ud, phone) ==
    Narrated([ud EXCEPT !.customer_phone = Some(phone)], "Got it. Your phone number has been recorded.")

update_email(ud, email) ==
    Narrated([ud EXCEPT !.customer_email = Some(email)], "Perfect. I've saved your email address")

Greeter_to_property_finder(ud, cur) == transfer_to_agent(ud, cur, "propertyFinder")

Greeter_to_viewing_scheduler(ud, cur) == transfer_to_agent(ud, cur, "viewingScheduler")

Greeter_to_mortgage_advisor(ud, cur) == transfer_to_agent(ud, cur, "mortgageAdvisor")

update_property_preferences(ud, min_price, max_price, min_bedrooms, min_bathrooms, property_type, location) ==
    LET p0 == ud.property_preferences
        p1 == IF TruthyNum(min_price) THEN [p0 EXCEPT !.min_price = min_price] ELSE p0
        p2 == IF TruthyNum(max_price) THEN [p1 EXCEPT !.max_price = max_price] ELSE p1
        p3 == IF TruthyNum(min_bedrooms) THEN [p2 EXCEPT !.min_bedrooms = min_bedrooms] ELSE p2
        p4 == IF TruthyNum(min_bathrooms) THEN [p3 EXCEPT !.min_bathrooms = min_bathrooms] ELSE p3
        p5 == IF Truthy(property_type) THEN [p4 EXCEPT !.property_type = property_type] ELSE p4
        p6 == IF Truthy(location) THEN [p5 EXCEPT !.location = location] ELSE p5
    IN  Narrated([ud EXCEPT !.property_preferences = p6], "I've updated your property preferences.")

\* The preference filters of search_properties, applied to one property
MatchesPreferences(p, prefs) ==
    /\ TruthyNum(prefs.min_price) => p.price >= prefs.min_price[1]
    /\ TruthyNum(prefs.max_price) => p.price <= prefs.max_price[1]
    /\ TruthyNum(prefs.min_bedrooms) => p.bedrooms >= prefs.min_bedrooms[1]
    /\ TruthyNum(prefs.min_bathrooms) => p.bathrooms >= prefs.min_bathrooms[1]
    /\ Truthy(prefs.property_type) => p.type = Lower(prefs.property_type[1])

SeqContains(s, x) == \E i \in 1..Len(s) : s[i] = x

\* for prop in matching: if prop["id"] not in viewed: viewed.append(prop["id"])
RECURSIVE AppendUnseen(_, _, _)
AppendUnseen(viewed, props, i) ==
    IF i > Len(props) THEN viewed
    ELSE AppendUnseen(IF SeqContains(viewed, props[i].id) THEN viewed
                      ELSE Append(viewed, props[i].id),
                      props, i + 1)

search_properties(ud) ==
    LET matching == SelectSeq(PROPERTY_DATABASE,
                              LAMBDA p : MatchesPreferences(p, ud.property_preferences))
    IN  IF matching = <<>>
        THEN Narrated(ud, "I couldn't find any properties matching your criteria.")
        ELSE Narrated([ud EXCEPT !.viewed_properties = AppendUnseen(@, matching, 1)],
                      "I found properties matching your criteria")

\* The first property whose lower-cased address equals the lower-cased argument
FindByAddress(property_address) ==
    SelectSeq(PROPERTY_DATABASE, LAMBDA p : p.address = Lower(property_address))

express_interest(ud, property_address) ==
    LET found == FindByAddress(property_address)
    IN  IF found = <<>>
        THEN Narrated(ud, "I couldn't find a property with the address")
        ELSE IF SeqContains(ud.interested_properties, found[1].id)
        THEN Narrated(ud, "Great! I've noted your interest in the property")
        ELSE Narrated([ud EXCEPT !.interested_properties = Append(@, found[1].id)],
                      "Great! I've noted your interest in the property")

PropertyFinder_to_greeter(ud, cur) == transfer_to_agent(ud, cur, "greeter")

\* A handoff tool that records the previous agent before it tests its guard.
PropertyFinder_to_viewing_scheduler_early(ud, cur) ==
    IF ud.interested_properties = <<>>
    THEN Narrated([ud EXCEPT !.prev_agent = Some(cur)],
                  "Before scheduling a viewing, please select at least one property you're interested in.")
    ELSE transfer_to_agent(ud, cur, "viewingScheduler")

PropertyFinder_to_viewing_scheduler(ud, cur) ==
    IF ud.interested_properties = <<>>
    THEN Narrated(ud, "Before scheduling a viewing, please select at least one property you're interested in.")
    ELSE transfer_to_agent(ud, cur, "viewingScheduler")

schedule_viewing(ud, property_address, date, time) ==
    IF FindByAddress(property_address) = <<>>
    THEN Narrated(ud, "I couldn't find a property with the address")
    ELSE IF ~Truthy(ud.customer_name) \/ ~Truthy(ud.customer_phone)
    THEN Narrated(ud, "Before I can schedule a viewing, I'll need your name and phone number")
    ELSE Narrated([ud EXCEPT !.viewing_date = Some(date), !.viewing_time = Some(time)],
                  "Great! I've scheduled a viewing")

ViewingScheduler_to_greeter(ud, cur) == transfer_to_agent(ud, cur, "greeter")

ViewingScheduler_to_mortgage_advisor(ud, cur) == transfer_to_agent(ud, cur, "mortgageAdvisor")

\* (1 - (1 + r) ** -360) / r for r = 0.065 / 12, in thousandths
AnnuityFactorMilli == 158211

\* The float arithmetic of prequalify_mortgage in integers: the maximum monthly
\* payment is carried times 1200 and multiplied by the factor in two parts
\* (whole payment and remainder) so that every product stays within 32 bits;
\* the result is rounded to the nearest thousand.
MaxHomePrice(annual_income, credit_score, down_payment, monthly_debt) ==
    LET payment1200 == annual_income * 43 - monthly_debt * 1200
        whole == payment1200 \div 1200
        rest == payment1200 % 1200
        loan == (whole * AnnuityFactorMilli + (rest * AnnuityFactorMilli) \div 1200) \div 1000
        price == loan + down_payment
        adjusted == IF credit_score < 640 THEN (price * 8) \div 10
                    ELSE IF credit_score < 700 THEN (price * 9) \div 10
                    ELSE price
    IN  ((adjusted + 500) \div 1000) * 1000

prequalify_mortgage(ud, annual_income, credit_score, down_payment, monthly_debt) ==
    IF ~Truthy(ud.customer_name) \/ ~Truthy(ud.customer_phone) \/ ~Truthy(ud.customer_email)
    THEN Narrated(ud, "Before I can pre-qualify you, I'll need your full contact information")
    ELSE Narrated([ud EXCEPT !.prequalified = TRUE,
                             !.prequalified_amount =
                                 Some(MaxHomePrice(annual_income, credit_score,
                                                   down_payment, monthly_debt))],
                  "Based on the information you've provided, I estimate you could qualify")

MortgageAdvisor_to_greeter(ud, cur) == transfer_to_agent(ud, cur, "greeter")

MortgageAdvisor_to_property_finder(ud, cur) == transfer_to_agent(ud, cur, "propertyFinder")

\* ------------------------------------------------------ session: bounds
\* Item ids a conversation may hand out before it ends.
MaxItems == 16
\* Item ids two conversations running side by side may hand out together.
MaxPairItems == 12
\* Item ids a conversation kept between the front desk and returns may hand out.
MaxFlowItems == 19

\* A session configured with two more round trips than the source sets.
max_tool_steps_raised == 5 + 2

\* --------------------------------------------------- program constants
\* keep_last_n_messages: int = 6
KeepLastN == 6
\* AgentSession(max_tool_steps=5)
max_tool_steps == 5

\* --------------------------------------------------- tool argument values
NameArgs == {None, Some(""), Some("Ada")}
EmailArgs == {None, Some("ada@example.com")}
PhoneArgs == {None, Some("555-0100")}
OrderArgs == {None, Some("ORD-1")}
ProductArgs == {None, Some("P001"), Some("P004")}
DescriptionArgs == {"tv has no picture"}
RatingArgs == {5}
ReturnReasonArgs == {"defective"}
AmountArgs == {1299}
SubscriptionActionArgs == {"cancel", "upgrade"}
EscalationReasonArgs == {"not fixed by troubleshooting"}
AddressArgs == {"123 Main Street", "1 Nowhere"}
MinPriceArgs == {None, Some(400000)}
MaxPriceArgs == {None, Some(300000)}
PropertyTypeArgs == {None, Some("Condo")}

\* ----------------------------------------------------------- BaseAgent
Summarize(ud) ==
    IF script = "support" THEN SupportSummarize(ud) ELSE RealEstateSummarize(ud)

\* chat_ctx.add_message(role="system", content=f"You are {agent_name} agent. ...")
SystemMessage(id, agent_name, summary) ==
    [id |-> id, type |-> "message", role |-> "system", call_id |-> 0,
     content |-> [agent |-> agent_name, summary |-> summary]]

\* Agent.llm: InitialSupport and Greeter are built with
\* llm=openai.LLM(parallel_tool_calls=False), the other agents with none.
AgentLLM(agent) == IF agent \in {"InitialSupport", "Greeter"} THEN Some("LLM") ELSE None

\* llm_model = self.llm or self.session.llm; isinstance(llm_model, llm.RealtimeModel)
IsRealtime(agent) ==
    LET llm_model == IF AgentLLM(agent) # None THEN AgentLLM(agent)[1] ELSE session_llm
    IN  llm_model = "RealtimeModel"

Ids(items) == {items[i].id : i \in 1..Len(items)}

CarryOverUnfiltered(own, prev_items) ==
    truncate_chat_ctx(prev_items, KeepLastN, FALSE, TRUE)

\* A carry-over that asks the truncation to keep system messages.
CarryOverWithSystem(own, prev_items) ==
    LET items_copy == truncate_chat_ctx(prev_items, KeepLastN, TRUE, TRUE)
        existing_ids == Ids(own)
    IN  SelectSeq(items_copy, LAMBDA item : item.id \notin existing_ids)

\* items_copy: the truncated history of prev_agent, less the ids already held
CarryOver(own, prev_items) ==
    LET items_copy == truncate_chat_ctx(prev_items, KeepLastN, FALSE, TRUE)
        existing_ids == Ids(own)
    IN  SelectSeq(items_copy, LAMBDA item : item.id \notin existing_ids)

\* An entry hook that writes its system message before it carries history over.
on_enter_message_first(agent, ud, ctx, id) ==
    LET own == Append(ctx[agent], SystemMessage(id, agent, Summarize(ud)))
    IN  IF ud.prev_agent # None /\ ~IsRealtime(agent)
        THEN own \o CarryOver(own, ctx[ud.prev_agent[1]])
        ELSE own

\* An entry hook that carries history over whatever the language model is.
on_enter_any_model(agent, ud, ctx, id) ==
    LET own == ctx[agent]
        merged == IF ud.prev_agent # None
                  THEN own \o CarryOver(own, ctx[ud.prev_agent[1]])
                  ELSE own
    IN  Append(merged, SystemMessage(id, agent, Summarize(ud)))

\* An entry hook that puts the carried history in front of the agent's own.
on_enter_history_first(agent, ud, ctx, id) ==
    LET own == ctx[agent]
        merged == IF ud.prev_agent # None /\ ~IsRealtime(agent)
                  THEN CarryOver(own, ctx[ud.prev_agent[1]]) \o own
                  ELSE own
    IN  Append(merged, SystemMessage(id, agent, Summarize(ud)))

\* BaseAgent.on_enter: the chat context handed to update_chat_ctx
on_enter(agent, ud, ctx, id) ==
    LET own == ctx[agent]
        merged == IF ud.prev_agent # None /\ ~IsRealtime(agent)
                  THEN own \o CarryOver(own, ctx[ud.prev_agent[1]])
                  ELSE own
    IN  Append(merged, SystemMessage(id, agent, Summarize(ud)))

\* ------------------------------------------------------ session: driver
\* There are n fresh item ids left within the bounds.
Room(n) ==
    /\ next_id + n - 1 <= budget
    /\ peer # None => next_id + n + peer[1].next_id <= MaxPairItems + 2

NoResult == [tool |-> "none", kind |-> "none", agent |-> "none", name |-> "", text |-> ""]

NoCall == [items |-> <<>>, keep_last_n_messages |-> 0,
           keep_system_message |-> FALSE, keep_function_call |-> FALSE]

AllAgents == SupportAgents \cup RealEstateAgents

\* ------------------------------------------------ objects and sharing
\* The fields of UserData that hold a mutable container, each built by a
\* field(default_factory=...).
MutableFields(s) ==
    IF s = "support" THEN {"agents"}
    ELSE {"property_preferences", "viewed_properties", "interested_properties", "agents"}

\* Objects built once, when the module is loaded, and handed to every call.
SharedObject(conv, what) == <<0, what>>

\* UserData() runs each default factory and entrypoint calls each agent's
\* constructor: every call of entrypoint gets objects of its own.
NewObject(conv, what) == <<conv, what>>

\* The containers and agents built by call number conv of entrypoint.
Objects(s, conv) ==
    [what \in MutableFields(s) \cup (IF s = "support" THEN SupportAgents ELSE RealEstateAgents) |->
        NewObject(conv, what)]

\* Reference semantics: what the other conversation holds after a step that
\* leaves this one with UserData ud and buffers ctx. A container or an agent
\* that is one object in both conversations reads the same in both.
SeenByPeer(ud, ctx) ==
    IF peer = None THEN None
    ELSE LET other == peer[1]
             same(what) == what \in DOMAIN objects /\ other.objects[what] = objects[what]
         IN  Some([other EXCEPT
                 !.userdata = [f \in DOMAIN other.userdata |->
                                  IF f \in MutableFields(script) /\ same(f)
                                  THEN ud[f] ELSE other.userdata[f]],
                 !.chat_ctx = [a \in DOMAIN other.chat_ctx |->
                                  IF same(a) THEN ctx[a] ELSE other.chat_ctx[a]]])

\* A session started with another agent of the registry than the entry agent.
entrypoint_other_agent(s, registry, first) ==
    /\ script = s
    /\ userdata = IF s = "support" THEN SupportUserData(registry)
                  ELSE RealEstateUserData(registry)
    /\ current_agent = registry[CHOOSE k \in DOMAIN registry : k # first]
    /\ chat_ctx = [a \in AllAgents |-> <<>>]
    /\ next_id = 1
    /\ result = NoResult
    /\ pc = "enter"
    /\ steps = 0
    /\ call = NoCall
    /\ new_items = <<>>
    /\ tpc = "off"
    /\ objects = Objects(s, 1)

\* entrypoint: UserData(), the registry, AgentSession(...), agent.start(...)
entrypoint(s, registry, first) ==
    /\ script = s
    /\ userdata = IF s = "support" THEN SupportUserData(registry)
                  ELSE RealEstateUserData(registry)
    /\ current_agent = registry[first]
    /\ chat_ctx = [a \in AllAgents |-> <<>>]
    /\ next_id = 1
    /\ result = NoResult
    /\ pc = "enter"
    /\ steps = 0
    /\ call = NoCall
    /\ new_items = <<>>
    /\ tpc = "off"
    /\ objects = Objects(s, 1)

\* One conversation, its session built with llm=openai.LLM(model="gpt-4o-mini").
Init ==
    /\ \/ entrypoint("support", SupportRegistry, "initial")
       \/ entrypoint("realestate", RealEstateRegistry, "greeter")
    /\ session_llm = "LLM"
    /\ peer = None
    /\ budget = MaxItems

\* The session runs the on_enter hook of the agent that became active.
OnEnter ==
    /\ pc = "enter"
    /\ Room(1)
    /\ chat_ctx' = [chat_ctx EXCEPT
                        ![current_agent] = on_enter(current_agent, userdata, chat_ctx, next_id)]
    /\ next_id' = next_id + 1
    /\ pc' = "announce"
    /\ UNCHANGED <<script, userdata, current_agent, result, steps, call, new_items, tpc, session_llm, objects, budget>>
    /\ peer' = SeenByPeer(userdata', chat_ctx')

\* session.generate_reply() without tool_choice: the reply to the entry message
\* is an ordinary turn of the model, which may call tools.
AnnounceWithTools ==
    /\ pc = "announce"
    /\ pc' = "llm"
    /\ steps' = 0
    /\ UNCHANGED <<script, userdata, current_agent, chat_ctx, next_id, result, call,
                   new_items, tpc, session_llm, objects, budget>>
    /\ peer' = SeenByPeer(userdata', chat_ctx')

\* session.generate_reply(tool_choice="none"): the entry announcement
Announce ==
    /\ pc = "announce"
    /\ Room(1)
    /\ chat_ctx' = [chat_ctx EXCEPT ![current_agent] = Append(@, Message(next_id, "assistant"))]
    /\ next_id' = next_id + 1
    /\ pc' = "idle"
    /\ UNCHANGED <<script, userdata, current_agent, result, steps, call, new_items, tpc, session_llm, objects, budget>>
    /\ peer' = SeenByPeer(userdata', chat_ctx')

\* The caller speaks: a user message opens a turn.
UserTurn ==
    /\ pc = "idle"
    /\ Room(1)
    /\ chat_ctx' = [chat_ctx EXCEPT ![current_agent] = Append(@, Message(next_id, "user"))]
    /\ next_id' = next_id + 1
    /\ pc' = "llm"
    /\ steps' = 0
    /\ UNCHANGED <<script, userdata, current_agent, result, call, new_items, tpc, session_llm, objects, budget>>
    /\ peer' = SeenByPeer(userdata', chat_ctx')

\* The model answers in words: the turn ends.
Reply ==
    /\ pc = "llm"
    /\ Room(1)
    /\ chat_ctx' = [chat_ctx EXCEPT ![current_agent] = Append(@, Message(next_id, "assistant"))]
    /\ next_id' = next_id + 1
    /\ pc' = "idle"
    /\ UNCHANGED <<script, userdata, current_agent, result, steps, call, new_items, tpc, session_llm, objects, budget>>
    /\ peer' = SeenByPeer(userdata', chat_ctx')

\* One tool round trip of the active agent: the tool runs, its call and output
\* are committed to the agent's history, and an (Agent, str) result hands over.
Dispatch(s, owners, tool, ret) ==
    /\ script = s
    /\ pc = "llm"
    /\ steps < max_tool_steps
    /\ current_agent \in owners
    /\ Room(2)
    /\ userdata' = ret.userdata
    /\ result' = [tool |-> tool, kind |-> ret.result.kind, agent |-> ret.result.agent,
                  name |-> ret.result.name, text |-> ret.result.text]
    /\ chat_ctx' = [chat_ctx EXCEPT ![current_agent] =
                        @ \o <<FunctionCall(next_id, next_id),
                               FunctionCallOutput(next_id + 1, next_id)>>]
    /\ next_id' = next_id + 2
    /\ steps' = steps + 1
    /\ IF ret.result.kind = "handoff"
       THEN current_agent' = ret.result.agent /\ pc' = "enter"
       ELSE current_agent' = current_agent /\ pc' = "llm"
    /\ UNCHANGED <<script, call, new_items, tpc, session_llm, objects, budget>>
    /\ peer' = SeenByPeer(userdata', chat_ctx')

\* -------------------------------------------- customer support: actions
SupportSpecialists == {"ReturnsAgent", "TechnicalAgent", "BillingAgent", "ManagerAgent"}

UpdateCustomerInfo ==
    \E name \in NameArgs, email \in EmailArgs, phone \in PhoneArgs :
        Dispatch("support", SupportSpecialists, "update_customer_info",
                 update_customer_info(userdata, name, email, phone))

RecordSatisfaction ==
    \E rating \in RatingArgs :
        Dispatch("support", SupportSpecialists, "record_satisfaction",
                 record_satisfaction(userdata, rating))

IdentifyIssue ==
    \E order_number \in OrderArgs, product_id \in ProductArgs,
       issue_type \in IssueType, description \in DescriptionArgs :
        Dispatch("support", {"InitialSupport"}, "identify_issue",
                 identify_issue(userdata, order_number, product_id, issue_type, description))

InitialToReturns ==
    Dispatch("support", {"InitialSupport"}, "to_returns",
             InitialSupport_to_returns(userdata, current_agent))

InitialToTechnical ==
    Dispatch("support", {"InitialSupport"}, "to_technical",
             InitialSupport_to_technical(userdata, current_agent))

InitialToBilling ==
    Dispatch("support", {"InitialSupport"}, "to_billing",
             InitialSupport_to_billing(userdata, current_agent))

InitialToManager ==
    Dispatch("support", {"InitialSupport"}, "to_manager",
             InitialSupport_to_manager(userdata, current_agent))

ProcessReturn ==
    \E return_reason \in ReturnReasonArgs :
        Dispatch("support", {"ReturnsAgent"}, "process_return",
                 process_return(userdata, return_reason))

SendReturnLabel ==
    Dispatch("support", {"ReturnsAgent"}, "send_return_label", send_return_label(userdata))

ReturnsToInitial ==
    Dispatch("support", {"ReturnsAgent"}, "to_initial",
             ReturnsAgent_to_initial(userdata, current_agent))

ReturnsToBilling ==
    Dispatch("support", {"ReturnsAgent"}, "to_billing",
             ReturnsAgent_to_billing(userdata, current_agent))

ReturnsToManager ==
    Dispatch("support", {"ReturnsAgent"}, "to_manager",
             ReturnsAgent_to_manager(userdata, current_agent))

TroubleshootIssue ==
    Dispatch("support", {"TechnicalAgent"}, "troubleshoot_issue", troubleshoot_issue(userdata))

EscalateTechnicalIssue ==
    \E reason \in EscalationReasonArgs :
        Dispatch("support", {"TechnicalAgent"}, "escalate_technical_issue",
                 escalate_technical_issue(userdata, current_agent, reason))

TechnicalToInitial ==
    Dispatch("support", {"TechnicalAgent"}, "to_initial",
             TechnicalAgent_to_initial(userdata, current_agent))

TechnicalToReturns ==
    Dispatch("support", {"TechnicalAgent"}, "to_returns",
             TechnicalAgent_to_returns(userdata, current_agent))

ProcessRefund ==
    \E amount \in AmountArgs :
        Dispatch("support", {"BillingAgent"}, "process_refund", process_refund(userdata, amount))

ManageSubscription ==
    \E action \in SubscriptionActionArgs :
        Dispatch("support", {"BillingAgent"}, "manage_subscription",
                 manage_subscription(userdata, action))

BillingToInitial ==
    Dispatch("support", {"BillingAgent"}, "to_initial",
             BillingAgent_to_initial(userdata, current_agent))

BillingToManager ==
    Dispatch("support", {"BillingAgent"}, "to_manager",
             BillingAgent_to_manager(userdata, current_agent))

ResolveEscalatedIssue ==
    Dispatch("support", {"ManagerAgent"}, "resolve_escalated_issue",
             resolve_escalated_issue(userdata, "replacement", None))

ManagerToInitial ==
    Dispatch("support", {"ManagerAgent"}, "to_initial",
             ManagerAgent_to_initial(userdata, current_agent))

ManagerToReturns ==
    Dispatch("support", {"ManagerAgent"}, "to_returns",
             ManagerAgent_to_returns(userdata, current_agent))

ManagerToTechnical ==
    Dispatch("support", {"ManagerAgent"}, "to_technical",
             ManagerAgent_to_technical(userdata, current_agent))

ManagerToBilling ==
    Dispatch("support", {"ManagerAgent"}, "to_billing",
             ManagerAgent_to_billing(userdata, current_agent))

SupportTool ==
    \/ UpdateCustomerInfo \/ RecordSatisfaction \/ IdentifyIssue
    \/ InitialToReturns \/ InitialToTechnical \/ InitialToBilling \/ InitialToManager
    \/ ProcessReturn \/ SendReturnLabel
    \/ ReturnsToInitial \/ ReturnsToBilling \/ ReturnsToManager
    \/ TroubleshootIssue \/ EscalateTechnicalIssue \/ TechnicalToInitial \/ TechnicalToReturns
    \/ ProcessRefund \/ ManageSubscription \/ BillingToInitial \/ BillingToManager
    \/ ResolveEscalatedIssue
    \/ ManagerToInitial \/ ManagerToReturns \/ ManagerToTechnical \/ ManagerToBilling

\* ------------------------------------------------- real estate: actions
RealEstateSpecialists == {"PropertyFinder", "ViewingScheduler", "MortgageAdvisor"}

UpdateName ==
    \E name \in NameArgs \ {None} :
        Dispatch("realestate", RealEstateSpecialists, "update_name",
                 update_name(userdata, name[1]))

UpdatePhone ==
    \E phone \in PhoneArgs \ {None} :
        Dispatch("realestate", RealEstateSpecialists, "update_phone",
                 update_phone(userdata, phone[1]))

UpdateEmail ==
    \E email \in EmailArgs \ {None} :
        Dispatch("realestate", RealEstateSpecialists, "update_email",
                 update_email(userdata, email[1]))

GreeterToPropertyFinder ==
    Dispatch("realestate", {"Greeter"}, "to_property_finder",
             Greeter_to_property_finder(userdata, current_agent))

GreeterToViewingScheduler ==
    Dispatch("realestate", {"Greeter"}, "to_viewing_scheduler",
             Greeter_to_viewing_scheduler(userdata, current_agent))

GreeterToMortgageAdvisor ==
    Dispatch("realestate", {"Greeter"}, "to_mortgage_advisor",
             Greeter_to_mortgage_advisor(userdata, current_agent))

UpdatePropertyPreferences ==
    \E min_price \in MinPriceArgs, max_price \in MaxPriceArgs,
       property_type \in PropertyTypeArgs :
        Dispatch("realestate", {"PropertyFinder"}, "update_property_preferences",
                 update_property_preferences(userdata, min_price, max_price, None, None,
                                             property_type, None))

SearchProperties ==
    Dispatch("realestate", {"PropertyFinder"}, "search_properties", search_properties(userdata))

ExpressInterest ==
    \E property_address \in AddressArgs :
        Dispatch("realestate", {"PropertyFinder"}, "express_interest",
                 express_interest(userdata, property_address))

PropertyFinderToGreeter ==
    Dispatch("realestate", {"PropertyFinder"}, "to_greeter",
             PropertyFinder_to_greeter(userdata, current_agent))

PropertyFinderToViewingScheduler ==
    Dispatch("realestate", {"PropertyFinder"}, "to_viewing_scheduler",
             PropertyFinder_to_viewing_scheduler(userdata, current_agent))

ScheduleViewing ==
    \E property_address \in AddressArgs :
        Dispatch("realestate", {"ViewingScheduler"}, "schedule_viewing",
                 schedule_viewing(userdata, property_address, "2025-06-01", "10:00 AM"))

ViewingSchedulerToGreeter ==
    Dispatch("realestate", {"ViewingScheduler"}, "to_greeter",
             ViewingScheduler_to_greeter(userdata, current_agent))

ViewingSchedulerToMortgageAdvisor ==
    Dispatch("realestate", {"ViewingScheduler"}, "to_mortgage_advisor",
             ViewingScheduler_to_mortgage_advisor(userdata, current_agent))

PrequalifyMortgage ==
    Dispatch("realestate", {"MortgageAdvisor"}, "prequalify_mortgage",
             prequalify_mortgage(userdata, 120000, 680, 50000, 500))

MortgageAdvisorToGreeter ==
    Dispatch("realestate", {"MortgageAdvisor"}, "to_greeter",
             MortgageAdvisor_to_greeter(userdata, current_agent))

MortgageAdvisorToPropertyFinder ==
    Dispatch("realestate", {"MortgageAdvisor"}, "to_property_finder",
             MortgageAdvisor_to_property_finder(userdata, current_agent))

RealEstateTool ==
    \/ UpdateName \/ UpdatePhone \/ UpdateEmail
    \/ GreeterToPropertyFinder \/ GreeterToViewingScheduler \/ GreeterToMortgageAdvisor
    \/ UpdatePropertyPreferences \/ SearchProperties \/ ExpressInterest
    \/ PropertyFinderToGreeter \/ PropertyFinderToViewingScheduler
    \/ ScheduleViewing \/ ViewingSchedulerToGreeter \/ ViewingSchedulerToMortgageAdvisor
    \/ PrequalifyMortgage \/ MortgageAdvisorToGreeter \/ MortgageAdvisorToPropertyFinder

\* ------------------------------------------------------- specifications
vars == <<call, new_items, tpc, script, userdata, current_agent, chat_ctx, next_id,
          result, pc, steps, session_llm, objects, peer, budget>>

Next == OnEnter \/ Announce \/ UserTurn \/ Reply \/ SupportTool \/ RealEstateTool

Spec == Init /\ [][Next]_vars

\* The registries of an entrypoint that leaves out at most one agent other than
\* the one it starts: the configuration error of a handoff to a missing key.
Without(registry, key) == [name \in DOMAIN registry \ {key} |-> registry[name]]

RegistryChoices(registry, first) ==
    {registry} \cup {Without(registry, key) : key \in DOMAIN registry \ {first}}

ConfigInit ==
    /\ \/ \E registry \in RegistryChoices(SupportRegistry, "initial") :
               entrypoint("support", registry, "initial")
       \/ \E registry \in RegistryChoices(RealEstateRegistry, "greeter") :
               entrypoint("realestate", registry, "greeter")
    /\ session_llm = "LLM"
    /\ peer = None
    /\ budget = MaxItems

ConfigSpec == ConfigInit /\ [][Next]_vars

\* ------------------------------------------------------ realtime session
\* A session whose entrypoint passes a realtime model as the session's llm;
\* InitialSupport and Greeter keep the openai.LLM they are built with.
RealtimeInit ==
    /\ \/ entrypoint("support", SupportRegistry, "initial")
       \/ entrypoint("realestate", RealEstateRegistry, "greeter")
    /\ session_llm = "RealtimeModel"
    /\ peer = None
    /\ budget = MaxItems

RealtimeSpec == RealtimeInit /\ [][Next]_vars

\* ----------------------------------------------------- two conversations
\* The conversation a further call of entrypoint starts, before its first step.
Started(s, registry, first, conv) ==
    [script |-> s,
     userdata |-> IF s = "support" THEN SupportUserData(registry)
                  ELSE RealEstateUserData(registry),
     current_agent |-> registry[first],
     chat_ctx |-> [a \in AllAgents |-> <<>>],
     next_id |-> 1, result |-> NoResult, pc |-> "enter", steps |-> 0,
     objects |-> Objects(s, conv)]

\* The worker runs entrypoint once per job: two jobs of the same script.
PairInit ==
    /\ \/ /\ entrypoint("support", SupportRegistry, "initial")
          /\ peer = Some(Started("support", SupportRegistry, "initial", 2))
       \/ /\ entrypoint("realestate", RealEstateRegistry, "greeter")
          /\ peer = Some(Started("realestate", RealEstateRegistry, "greeter", 2))
    /\ session_llm = "LLM"
    /\ budget = MaxItems

\* The event loop leaves one conversation at an await and resumes the other.
Switch ==
    /\ peer # None
    /\ peer' = Some([script |-> script, userdata |-> userdata,
                     current_agent |-> current_agent, chat_ctx |-> chat_ctx,
                     next_id |-> next_id, result |-> result, pc |-> pc, steps |-> steps,
                     objects |-> objects])
    /\ script' = peer[1].script
    /\ userdata' = peer[1].userdata
    /\ current_agent' = peer[1].current_agent
    /\ chat_ctx' = peer[1].chat_ctx
    /\ next_id' = peer[1].next_id
    /\ result' = peer[1].result
    /\ pc' = peer[1].pc
    /\ steps' = peer[1].steps
    /\ objects' = peer[1].objects
    /\ UNCHANGED <<call, new_items, tpc, session_llm, budget>>

PairNext == Next \/ Switch

PairSpec == PairInit /\ [][PairNext]_vars

\* --------------------------------------------------------------- TruncSpec
\* Inputs: every list of at most MaxLen items whose ids are their positions.
Shapes ==
    {[type |-> "message", role |-> r, call_id |-> 0] : r \in {"user", "system"}}
    \cup {[type |-> t, role |-> "none", call_id |-> c] : t \in ToolTypes, c \in 1..MaxCalls}

ItemOf(shape, id) ==
    [id |-> id, type |-> shape.type, role |-> shape.role, call_id |-> shape.call_id,
     content |-> NoContent]

InputLists ==
    UNION {{[i \in 1..len |-> ItemOf(f[i], i)] : f \in [1..len -> Shapes]} : len \in 0..MaxLen}

TruncInit ==
    /\ call \in [items : InputLists,
                 keep_last_n_messages : 0..MaxKeep,
                 keep_system_message : BOOLEAN,
                 keep_function_call : BOOLEAN]
    /\ new_items = <<>>
    /\ tpc = "called"
    /\ script = "none"
    /\ userdata = None
    /\ current_agent = "none"
    /\ chat_ctx = <<>>
    /\ next_id = 1
    /\ result = NoResult
    /\ pc = "off"
    /\ steps = 0
    /\ session_llm = "none"
    /\ objects = <<>>
    /\ peer = None
    /\ budget = 0

Truncate ==
    /\ tpc = "called"
    /\ new_items' = truncate_chat_ctx(call.items, call.keep_last_n_messages,
                                      call.keep_system_message, call.keep_function_call)
    /\ tpc' = "returned"
    /\ UNCHANGED <<call, script, userdata, current_agent, chat_ctx, next_id, result, pc, steps,
                   session_llm, objects, peer, budget>>

TruncNext == Truncate

TruncSpec == TruncInit /\ [][TruncNext]_vars

\* ================================================================ claims
\* ---------------------------------------------- truncation (TruncSpec)
IsToolItem(item) == item.type \in ToolTypes

\* Eligibility as the contract words it: an item is eligible unless it is a
\* system message and system messages are not kept, or a tool item and tool
\* items are not kept.
Eligible(items, keepSystemMessages, keepToolItems) ==
    SelectSeq(items,
              LAMBDA item :
                  ~(\/ item.type = "message" /\ item.role = "system" /\ ~keepSystemMessages
                    \/ IsToolItem(item) /\ ~keepToolItems))

EligibleInput == Eligible(call.items, call.keep_system_message, call.keep_function_call)

\* The n most recent items of s.
LastN(s, n) == IF Len(s) <= n THEN s ELSE SubSeq(s, Len(s) - n + 1, Len(s))

\* s less its longest prefix of tool items.
WithoutLeadingTools(s) ==
    LET k == CHOOSE k \in 0..Len(s) :
                 /\ \A i \in 1..k : IsToolItem(s[i])
                 /\ k < Len(s) => ~IsToolItem(s[k + 1])
    IN  SubSeq(s, k + 1, Len(s))

Returned == tpc = "returned"

\* C1: whatever the input and the settings, the list _truncate_chat_ctx returns
\* is empty or starts with an item that is neither a function_call nor a
\* function_call_output.
C1_NeverStartsWithToolItem ==
    Returned => (new_items = <<>> \/ ~IsToolItem(new_items[1]))

\* C1 witness: tool items were kept, the window began with some, they were
\* dropped and a message now heads the result.
C1_Witness ==
    /\ Returned
    /\ call.keep_function_call
    /\ new_items # <<>>
    /\ LET window == LastN(EligibleInput, call.keep_last_n_messages)
       IN  window # <<>> /\ IsToolItem(window[1]) /\ Len(new_items) < Len(window)

\* Every function_call_output of items follows a function_call of its call id,
\* and no call id is used by two calls or two outputs.
WellPaired(items) ==
    /\ \A j \in 1..Len(items) :
           items[j].type = "function_call_output" =>
               \E i \in 1..(j - 1) : /\ items[i].type = "function_call"
                                      /\ items[i].call_id = items[j].call_id
    /\ \A i, j \in 1..Len(items) :
           (/\ IsToolItem(items[i])
            /\ items[i].type = items[j].type
            /\ items[i].call_id = items[j].call_id) => i = j

HasItem(items, type, call_id) ==
    \E i \in 1..Len(items) : items[i].type = type /\ items[i].call_id = call_id

\* No output in slice without its call; no call in slice whose output the
\* input held but the slice lost.
PairingPreserved(input, slice) ==
    \A i \in 1..Len(slice) :
        /\ slice[i].type = "function_call_output" =>
               HasItem(slice, "function_call", slice[i].call_id)
        /\ (/\ slice[i].type = "function_call"
            /\ HasItem(input, "function_call_output", slice[i].call_id)) =>
               HasItem(slice, "function_call_output", slice[i].call_id)

\* C2: called as on_enter calls it (keep_function_call = True) on a history in
\* which every function_call_output comes after its function_call, the slice
\* returned holds no output without its call and no call that lost its output.
C2_PairingPreserved ==
    (Returned /\ call.keep_function_call /\ WellPaired(call.items)) =>
        PairingPreserved(call.items, new_items)

\* C3: for keep_last_n_messages >= 1 and an input with at least that many
\* eligible items, the result is exactly the keep_last_n_messages most recent
\* eligible items less the leading tool items, in the order of the input.
C3_KeepsLastNEligible ==
    (/\ Returned
     /\ call.keep_last_n_messages >= 1
     /\ Len(EligibleInput) >= call.keep_last_n_messages) =>
        /\ new_items = WithoutLeadingTools(LastN(EligibleInput, call.keep_last_n_messages))
        /\ Len(new_items) <= call.keep_last_n_messages
        /\ \A i, j \in 1..Len(new_items) : i < j => new_items[i].id < new_items[j].id

\* C3 witness: more eligible items than asked for, and exactly
\* keep_last_n_messages >= 2 of them returned.
C3_Witness ==
    /\ Returned
    /\ call.keep_last_n_messages >= 2
    /\ Len(EligibleInput) > call.keep_last_n_messages
    /\ Len(new_items) = call.keep_last_n_messages
    /\ new_items[1].id > 1

\* C4 as claimed: with fewer than keep_last_n_messages eligible items the
\* result is all the eligible items, for every setting of the flags.
C4_ReturnsAllEligible ==
    (Returned /\ Len(EligibleInput) < call.keep_last_n_messages) =>
        new_items = EligibleInput

\* C4 amended: with fewer than keep_last_n_messages eligible items (the empty
\* input included) the result is all the eligible items less the leading
\* tool items that the final step removes; without keep_function_call that is
\* all of them.
C4_ReturnsAllEligibleLessLeadingTools ==
    (Returned /\ Len(EligibleInput) < call.keep_last_n_messages) =>
        /\ new_items = WithoutLeadingTools(EligibleInput)
        /\ ~call.keep_function_call => new_items = EligibleInput
        /\ call.items = <<>> => new_items = <<>>

\* C4 witness: fewer eligible items than asked for, some of them returned and
\* a system message filtered out.
C4_Witness ==
    /\ Returned
    /\ Len(EligibleInput) < call.keep_last_n_messages
    /\ Len(EligibleInput) < Len(call.items)
    /\ new_items # <<>>
    /\ new_items = EligibleInput

\* ------------------------------------------------- entry hook (Spec)
AllIdsUnique(items) == Cardinality(Ids(items)) = Len(items)

Registered == {userdata.agents[name] : name \in DOMAIN userdata.agents}

\* C5: item ids are unique within every agent's buffer, and stay unique when the
\* entry hook's carry-over is applied to the active agent's buffer once, or
\* twice in sequence, with any registered agent as the previous agent.
C5_IdempotentMerge ==
    /\ \A agent \in Registered : AllIdsUnique(chat_ctx[agent])
    /\ \A prev \in Registered :
           LET agent == current_agent
               ud == [userdata EXCEPT !.prev_agent = Some(prev)]
               once == on_enter(agent, ud, chat_ctx, next_id)
               twice == on_enter(agent, ud, [chat_ctx EXCEPT ![agent] = once], next_id + 1)
           IN  AllIdsUnique(once) /\ AllIdsUnique(twice)

\* C5 witness: the hook has just run with a previous agent, items of that agent
\* were carried over, and a second run would find all of them already held.
C5_Witness ==
    /\ pc = "announce"
    /\ userdata.prev_agent # None
    /\ LET own == chat_ctx[current_agent]
           prev_items == chat_ctx[userdata.prev_agent[1]]
       IN  /\ CarryOverUnfiltered(own, prev_items) # <<>>
           /\ CarryOver(own, prev_items) = <<>>
           /\ Len(own) > 1

\* ------------------------------------------- handoff failure (ConfigSpec)
\* C6: a handoff whose target name is not a key of the registry fails with the
\* lookup error: the tool returns neither an agent nor a string, and no
\* handoff is pending.
C6_UnknownAgentFails ==
    (result.name # "" /\ result.name \notin DOMAIN userdata.agents) =>
        /\ result.kind = "error"
        /\ result.agent = "none"
        /\ pc # "enter"

\* C6 witness: a handoff tool was invoked with an unregistered target and
\* raised.
C6_Witness ==
    /\ result.kind = "error"
    /\ result.name # ""
    /\ result.name \notin DOMAIN userdata.agents

\* A step that dispatched a tool operation.
ToolStep == steps' = steps + 1

\* C7: a tool operation that fails instead of returning leaves every field of
\* UserData as it was before the operation was invoked.
C7_FailedToolChangesNothing ==
    [][(ToolStep /\ result'.kind = "error") => userdata' = userdata]_vars

\* ---------------------------------------------------- soft failure (Spec)
\* The precondition guards of the tool operations, as each tool tests them
\* on entry.
GuardUnmet(tool, agent, ud) ==
    IF script = "support"
    THEN \/ tool = "process_refund" /\ (~Truthy(ud.order_number) \/ ~Truthy(ud.customer_email))
         \/ tool = "process_return" /\ (~Truthy(ud.order_number) \/ ~Truthy(ud.product_id))
         \/ tool = "send_return_label" /\ (~ud.return_approved \/ ~Truthy(ud.customer_email))
         \/ tool = "resolve_escalated_issue" /\ ~ud.escalated
    ELSE \/ tool = "schedule_viewing" /\ (~Truthy(ud.customer_name) \/ ~Truthy(ud.customer_phone))
         \/ tool = "prequalify_mortgage"
                /\ (\/ ~Truthy(ud.customer_name) \/ ~Truthy(ud.customer_phone)
                    \/ ~Truthy(ud.customer_email))
         \/ tool = "to_viewing_scheduler" /\ agent = "PropertyFinder"
                /\ ud.interested_properties = <<>>

\* C8: a tool operation invoked while one of its precondition guards is unmet
\* returns a string, hands over to nobody and leaves UserData unchanged.
C8_SoftFailureWithoutMutation ==
    [][(ToolStep /\ GuardUnmet(result'.tool, current_agent, userdata)) =>
           /\ result'.kind = "str"
           /\ userdata' = userdata
           /\ current_agent' = current_agent
           /\ pc' = "llm"]_vars

\* C8 witness: process_refund has just answered with its guidance string while
\* order_number is unset.
C8_Witness ==
    /\ script = "support"
    /\ result.tool = "process_refund"
    /\ result.kind = "str"
    /\ result.text = "Before I can process a refund, I'll need your order number."
    /\ userdata.order_number = None
    /\ ~userdata.refund_approved

\* ------------------------------------------------ state summary (Spec)
Last(s) == s[Len(s)]

\* The system message the entry hook has just appended.
EntryMessage == Last(chat_ctx[current_agent])

EntrySummary == EntryMessage.content.summary

SummaryName ==
    IF script = "support" THEN EntrySummary.customer_info.name
    ELSE EntrySummary.customer_name

\* C9: when an agent is entered, the system message its entry hook appends
\* carries the customer_name UserData holds at that time, whichever agent's
\* tool stored it.
C9_NamePropagates ==
    (pc = "announce" /\ Truthy(userdata.customer_name)) =>
        /\ EntryMessage.type = "message"
        /\ EntryMessage.role = "system"
        /\ EntryMessage.content.agent = current_agent
        /\ SummaryName = userdata.customer_name[1]

\* C9 witness: a name stored by one agent's tool is in the entry message of the
\* agent handed over to.
C9_Witness ==
    /\ pc = "announce"
    /\ userdata.prev_agent # None
    /\ userdata.customer_name = Some("Ada")
    /\ SummaryName = "Ada"

\* C10: the summary in the entry hook's system message shows every populated
\* field of UserData, whatever issue_type is: the return and refund fields
\* once a tool has set them, as well as the fields that are always dumped.
C10_SummaryIsComplete ==
    (pc = "announce" /\ script = "support") =>
        /\ (\/ userdata.return_reason # None
            \/ userdata.return_approved
            \/ userdata.return_label_sent) =>
               EntrySummary.return_status =
                   Some([reason |-> userdata.return_reason,
                         approved |-> userdata.return_approved,
                         label_sent |-> userdata.return_label_sent])
        /\ (userdata.refund_amount # None \/ userdata.refund_approved) =>
               EntrySummary.billing_status =
                   Some([refund_amount |-> userdata.refund_amount,
                         approved |-> userdata.refund_approved])
        /\ EntrySummary.escalation.escalated = userdata.escalated
        /\ EntrySummary.satisfaction = userdata.satisfaction_rating

\* ------------------------------------------------- step limit (FairSpec)
\* No caller input has been received yet in this session.
NoUserInputYet ==
    \A a \in AllAgents : \A i \in 1..Len(chat_ctx[a]) : chat_ctx[a][i].role # "user"

\* A session from its start through the caller's first turn: a step of the
\* session, where the caller speaks only once.
FirstTurnNext == Next /\ (pc = "idle" => NoUserInputYet)

\* What the session does without waiting for the caller: entry hooks, the
\* entry announcement, tool round trips and the reply that ends the turn.
SessionStep == OnEnter \/ Announce \/ Reply \/ SupportTool \/ RealEstateTool

\* The session keeps running whatever it can run on its own.
FairSpec == Init /\ [][FirstTurnNext]_vars /\ WF_vars(SessionStep)

\* C11: a turn never dispatches more than 5 tool round trips; at the limit the
\* only step left is the reply that ends the turn; and every turn in progress
\* comes to a user-facing reply (the model's, or the entry announcement of the
\* agent handed over to).
C11_StepLimit ==
    /\ [](steps <= 5)
    /\ [][(pc = "llm" /\ steps = 5) => (pc' = "idle" /\ steps' = steps)]_vars
    /\ (pc = "llm") ~> (pc = "idle")

\* C11 witness: five round trips were dispatched in one turn and the turn has
\* ended with a reply.
C11_Witness ==
    /\ steps = 5
    /\ pc = "idle"
    /\ Last(chat_ctx[current_agent]).role = "assistant"

\* ------------------------------------------- summary round trip (Spec)
Opt(values) == {None} \cup {Some(v) : v \in values}

\* The scalar fields of UserData, each with values it can take.
ScalarFieldValues ==
    IF script = "support"
    THEN [customer_name |-> NameArgs, customer_email |-> EmailArgs,
          customer_phone |-> PhoneArgs, order_number |-> OrderArgs,
          product_id |-> ProductArgs, issue_type |-> Opt(IssueType),
          issue_description |-> Opt(DescriptionArgs),
          return_reason |-> Opt(ReturnReasonArgs),
          return_approved |-> BOOLEAN, return_label_sent |-> BOOLEAN,
          refund_amount |-> Opt(AmountArgs), refund_approved |-> BOOLEAN,
          escalated |-> BOOLEAN, escalation_reason |-> Opt(EscalationReasonArgs),
          satisfaction_rating |-> Opt(RatingArgs)]
    ELSE [customer_name |-> NameArgs, customer_phone |-> PhoneArgs,
          customer_email |-> EmailArgs,
          viewing_date |-> Opt({"2025-06-01"}), viewing_time |-> Opt({"10:00 AM"}),
          prequalified |-> BOOLEAN, prequalified_amount |-> Opt({586000})]

BooleanFields ==
    {"return_approved", "return_label_sent", "refund_approved", "escalated", "prequalified"}

NumberFields == {"refund_amount", "satisfaction_rating", "prequalified_amount"}

\* A field holds something other than its default (a non-empty string, a
\* number, True).
IsSet(ud, f) ==
    IF f \in BooleanFields THEN ud[f]
    ELSE IF f \in NumberFields THEN ud[f] # None
    ELSE Truthy(ud[f])

\* C12: the summary determines every set scalar field: giving a set field any
\* other value, or unsetting it, changes the summary, so that re-parsing the
\* text can recover the field with the value it has and tell it from unset.
C12_RoundTrip ==
    \A f \in DOMAIN ScalarFieldValues :
        IsSet(userdata, f) =>
            \A w \in ScalarFieldValues[f] \ {userdata[f]} :
                Summarize([userdata EXCEPT ![f] = w]) # Summarize(userdata)

\* ------------------------------------------------ handoff frame (Spec)
\* _transfer_to_agent called by the active agent with a registered name.
TransferFrame ==
    \A name \in DOMAIN userdata.agents :
        LET r == transfer_to_agent(userdata, current_agent, name)
        IN  /\ r.result.kind = "handoff"
            /\ r.result.agent = userdata.agents[name]
            /\ r.userdata = [userdata EXCEPT !.prev_agent = Some(current_agent)]

\* A tool round trip that ended in a handoff.
HandoffStep == ToolStep /\ result'.kind = "handoff"

\* C13: a successful _transfer_to_agent sets prev_agent to the agent that was
\* active, returns the agent registered under the name and leaves every other
\* UserData field as it was; and in the round trip of a handoff tool the
\* registry and all buffers are untouched but for the call and output that
\* the session commits to the invoking agent's buffer.
C13_HandoffFrame ==
    /\ []TransferFrame
    /\ [][HandoffStep =>
            /\ userdata'.prev_agent = Some(current_agent)
            /\ result'.agent = userdata.agents[result'.name]
            /\ current_agent' = result'.agent
            /\ userdata'.agents = userdata.agents
            /\ \A a \in AllAgents \ {current_agent} : chat_ctx'[a] = chat_ctx[a]
            /\ chat_ctx'[current_agent] =
                   chat_ctx[current_agent] \o
                       <<FunctionCall(next_id, next_id),
                         FunctionCallOutput(next_id + 1, next_id)>>]_vars

\* C13 witness: a handoff has just succeeded from an agent other than the
\* first one, so prev_agent was overwritten.
C13_Witness ==
    /\ result.kind = "handoff"
    /\ pc = "enter"
    /\ userdata.prev_agent \notin {None, Some("InitialSupport"), Some("Greeter")}
    /\ current_agent = userdata.agents[result.name]
    /\ current_agent # userdata.prev_agent[1]

\* --------------------------------------------- previous agent (Spec)
\* The entry hook of the agent has run in this session: its buffer holds the
\* system message the hook appends, which no carry-over copies.
WasActive(agent) ==
    \E i \in 1..Len(chat_ctx[agent]) :
        /\ chat_ctx[agent][i].role = "system"
        /\ chat_ctx[agent][i].content.agent = agent

\* C14: prev_agent is unset at session start, changes only to the agent that
\* is active when it is written, and so is always unset or an agent that was
\* active earlier in the session.
C14_PrevAgentWasActive ==
    /\ [](userdata.prev_agent # None =>
              /\ userdata.prev_agent[1] \in Registered
              /\ WasActive(userdata.prev_agent[1]))
    /\ [][userdata'.prev_agent # userdata.prev_agent =>
              userdata'.prev_agent = Some(current_agent)]_vars

\* C14 witness: after two handoffs prev_agent names an agent that is neither
\* the active one nor the first one.
C14_Witness ==
    /\ pc = "idle"
    /\ userdata.prev_agent \notin {None, Some(current_agent),
                                    Some("InitialSupport"), Some("Greeter")}
    /\ WasActive(userdata.prev_agent[1])

\* ------------------------------------------ handoff names (Spec)
\* Every handoff tool of the script in use, invoked in the current state.
HandoffResults ==
    IF script = "support"
    THEN {InitialSupport_to_returns(userdata, current_agent),
          InitialSupport_to_technical(userdata, current_agent),
          InitialSupport_to_billing(userdata, current_agent),
          InitialSupport_to_manager(userdata, current_agent),
          ReturnsAgent_to_initial(userdata, current_agent),
          ReturnsAgent_to_billing(userdata, current_agent),
          ReturnsAgent_to_manager(userdata, current_agent),
          TechnicalAgent_to_initial(userdata, current_agent),
          TechnicalAgent_to_returns(userdata, current_agent),
          BillingAgent_to_initial(userdata, current_agent),
          BillingAgent_to_manager(userdata, current_agent),
          ManagerAgent_to_initial(userdata, current_agent),
          ManagerAgent_to_returns(userdata, current_agent),
          ManagerAgent_to_technical(userdata, current_agent),
          ManagerAgent_to_billing(userdata, current_agent)}
         \cup {escalate_technical_issue(userdata, current_agent, reason) :
                   reason \in EscalationReasonArgs}
    ELSE {Greeter_to_property_finder(userdata, current_agent),
          Greeter_to_viewing_scheduler(userdata, current_agent),
          Greeter_to_mortgage_advisor(userdata, current_agent),
          PropertyFinder_to_greeter(userdata, current_agent),
          PropertyFinder_to_viewing_scheduler(userdata, current_agent),
          ViewingScheduler_to_greeter(userdata, current_agent),
          ViewingScheduler_to_mortgage_advisor(userdata, current_agent),
          MortgageAdvisor_to_greeter(userdata, current_agent),
          MortgageAdvisor_to_property_finder(userdata, current_agent)}

\* C15: in a session started by entrypoint no tool operation has raised the
\* lookup error, and none of the handoff tools would: each names a key of the
\* registry.
C15_HandoffNamesRegistered ==
    /\ result.kind # "error"
    /\ \A r \in HandoffResults :
           /\ r.result.kind # "error"
           /\ r.result.kind = "handoff" =>
                  /\ r.result.name \in DOMAIN userdata.agents
                  /\ r.result.agent = userdata.agents[r.result.name]

\* C15 witness: handoffs have led to the manager and on to another agent.
C15_Witness ==
    /\ result.kind = "handoff"
    /\ userdata.prev_agent = Some("ManagerAgent")
    /\ result.name \in DOMAIN userdata.agents

\* ------------------------------------------ registry is fixed (Spec)
\* The registry entrypoint builds for the script in use.
StartRegistry == IF script = "support" THEN SupportRegistry ELSE RealEstateRegistry

\* C16: the registry always has the keys and agents entrypoint gave it, no
\* step changes it, and the set of agents (each with its buffer) stays the
\* same.
C16_RegistryFixed ==
    /\ [](userdata.agents = StartRegistry)
    /\ [][/\ userdata'.agents = userdata.agents
           /\ DOMAIN chat_ctx' = DOMAIN chat_ctx]_vars

\* C16 witness: tools, handoffs and entry hooks have run and the registry is
\* the one of session start.
C16_Witness ==
    /\ script = "realestate"
    /\ current_agent = "MortgageAdvisor"
    /\ userdata.prev_agent = Some("ViewingScheduler")
    /\ pc = "idle"
    /\ userdata.agents = RealEstateRegistry

\* ------------------------------------------ one active agent (Spec)
\* The agent agent.start() is given: InitialSupport() or Greeter().
EntryAgent == IF script = "support" THEN "InitialSupport" ELSE "Greeter"

\* C17: the session starts with the entry agent active; the active agent is
\* always one agent of the registry; and it is the only one that acts: no step
\* touches the buffer of an agent other than the active one.
C17_OneActiveAgent ==
    /\ current_agent = EntryAgent
    /\ [](current_agent \in Registered)
    /\ [][\A a \in AllAgents \ {current_agent} : chat_ctx'[a] = chat_ctx[a]]_vars

\* C17 witness: a specialist is active after a handoff and the buffer of the
\* entry agent, no longer active, holds what it held when it handed over.
C17_Witness ==
    /\ pc = "llm"
    /\ current_agent \in Registered \ {EntryAgent}
    /\ userdata.prev_agent = Some(EntryAgent)
    /\ Last(chat_ctx[EntryAgent]).type = "function_call_output"
    /\ Last(chat_ctx[current_agent]).role = "user"

\* ------------------------------------- when the agent changes (Spec)
\* C18: the active agent changes only in a tool round trip that returned an
\* (Agent, message) pair, and then to that agent; a round trip that returned a
\* string leaves the active agent and prev_agent as they were; and after a
\* pair the next step is the entry hook of the target, which writes its system
\* message before any reply is produced.
C18_AgentChangesOnlyByHandoff ==
    /\ [][current_agent' # current_agent => HandoffStep]_vars
    /\ [][HandoffStep => (current_agent' = result'.agent /\ pc' = "enter")]_vars
    /\ [][(ToolStep /\ result'.kind = "str") =>
              /\ current_agent' = current_agent
              /\ userdata'.prev_agent = userdata.prev_agent
              /\ pc' = "llm"]_vars
    /\ [][pc = "enter" =>
              /\ current_agent' = current_agent
              /\ pc' = "announce"
              /\ Last(chat_ctx'[current_agent]).role = "system"
              /\ Last(chat_ctx'[current_agent]).content.agent = current_agent
              /\ Last(chat_ctx'[current_agent]).id = next_id]_vars

\* C18 witness: PropertyFinder.to_viewing_scheduler has answered with a string
\* and PropertyFinder is still active, with the greeter as previous agent.
C18_Witness ==
    /\ script = "realestate"
    /\ result.tool = "to_viewing_scheduler"
    /\ result.kind = "str"
    /\ current_agent = "PropertyFinder"
    /\ userdata.prev_agent = Some("Greeter")
    /\ pc = "llm"

\* ------------------------------------------ append-only buffers (Spec)
IsPrefix(s, t) == Len(s) <= Len(t) /\ SubSeq(t, 1, Len(s)) = s

\* The system messages an agent's own entry hook has written to its buffer.
OwnEntries(agent) ==
    {i \in 1..Len(chat_ctx[agent]) :
        /\ chat_ctx[agent][i].role = "system"
        /\ chat_ctx[agent][i].content.agent = agent}

\* C19: every step leaves each agent's buffer a prefix of what it becomes, and
\* the entry hook (with its truncation of the previous agent's history) leaves
\* the buffers of all other agents, the previous agent's included, exactly as
\* they were, while the entered agent's old buffer is a prefix of its new one.
C19_BuffersAppendOnly ==
    /\ [][\A a \in AllAgents : IsPrefix(chat_ctx[a], chat_ctx'[a])]_vars
    /\ [][pc = "enter" =>
              /\ \A a \in AllAgents \ {current_agent} : chat_ctx'[a] = chat_ctx[a]
              /\ IsPrefix(chat_ctx[current_agent], chat_ctx'[current_agent])
              /\ Len(chat_ctx'[current_agent]) > Len(chat_ctx[current_agent])]_vars

\* C19 witness: an agent has been entered a second time; its buffer holds its
\* earlier items and, after them, items carried over from the previous agent,
\* whose buffer still starts with its own first entry message.
C19_Witness ==
    /\ pc = "announce"
    /\ Cardinality(OwnEntries(current_agent)) = 2
    /\ userdata.prev_agent \notin {None, Some(current_agent)}
    /\ \E i \in 1..Len(chat_ctx[current_agent]) :
           /\ chat_ctx[current_agent][i].role = "user"
           /\ chat_ctx[current_agent][i].id \in Ids(chat_ctx[userdata.prev_agent[1]])
           /\ \E j \in OwnEntries(current_agent) : j < i
    /\ OwnEntries(userdata.prev_agent[1]) # {}

\* ------------------------------------- entry announcement (Spec)
\* C20: from the moment an agent becomes active until its entry announcement
\* is complete, no tool round trip is dispatched, UserData, the active agent
\* and the last tool result stay as they are, and the announcement itself is
\* one assistant message appended to the agent's buffer.
C20_AnnouncementWithoutTools ==
    /\ [][(pc = "enter" \/ pc = "announce") =>
              /\ ~ToolStep
              /\ userdata' = userdata
              /\ current_agent' = current_agent
              /\ result' = result
              /\ steps' = steps]_vars
    /\ [][pc = "announce" =>
              /\ pc' = "idle"
              /\ chat_ctx' = [chat_ctx EXCEPT ![current_agent] =
                                  Append(@, Message(next_id, "assistant"))]]_vars

\* C20 witness: an agent entered by a handoff has completed its announcement:
\* its buffer ends with its entry message and the announcement, and the
\* handoff is still the last tool result.
C20_Witness ==
    /\ pc = "idle"
    /\ result.kind = "handoff"
    /\ result.agent = current_agent
    /\ LET own == chat_ctx[current_agent]
       IN  /\ Len(own) >= 2
           /\ own[Len(own)].role = "assistant"
           /\ own[Len(own) - 1].role = "system"
           /\ own[Len(own) - 1].content.agent = current_agent

\* ------------------------------------ truncation, further claims (TruncSpec)
\* C22: for every keep_last_n_messages >= 0 and every input,
\* _truncate_chat_ctx returns at most keep_last_n_messages items; with
\* keep_last_n_messages = 0 it returns the empty list.
C22_AtMostKeepLastN ==
    Returned =>
        /\ Len(new_items) <= call.keep_last_n_messages
        /\ call.keep_last_n_messages = 0 => new_items = <<>>

IsSystemMessage(item) == item.type = "message" /\ item.role = "system"

\* The number of eligible items of the input from position i to its end.
EligibleFrom(i) ==
    Len(Eligible(SubSeq(call.items, i, Len(call.items)),
                 call.keep_system_message, call.keep_function_call))

\* C23: without keep_system_message the result holds no system message, and
\* without keep_function_call it holds no function_call or
\* function_call_output; every other message is eligible: one that lies within
\* the keep_last_n_messages most recent eligible items is in the result.
C23_EligibilityFilter ==
    Returned =>
        /\ ~call.keep_system_message =>
               \A k \in 1..Len(new_items) : ~IsSystemMessage(new_items[k])
        /\ ~call.keep_function_call =>
               \A k \in 1..Len(new_items) : ~IsToolItem(new_items[k])
        /\ \A i \in 1..Len(call.items) :
               (/\ call.items[i].type = "message"
                /\ ~IsSystemMessage(call.items[i]) \/ call.keep_system_message
                /\ EligibleFrom(i) <= call.keep_last_n_messages) =>
                   \E k \in 1..Len(new_items) : new_items[k] = call.items[i]

\* C23 witness: both flags off, an input that holds a system message, a tool
\* item and a user message, all within the count, and a result that holds
\* the user messages only.
C23_Witness ==
    /\ Returned
    /\ ~call.keep_system_message /\ ~call.keep_function_call
    /\ Len(call.items) <= call.keep_last_n_messages
    /\ \E i, j \in 1..Len(call.items) :
           IsSystemMessage(call.items[i]) /\ IsToolItem(call.items[j])
    /\ new_items # <<>>
    /\ new_items = SelectSeq(call.items, LAMBDA item : item.role = "user")

\* ------------------------------------------ entry hook, further claims (Spec)
\* The items of a buffer that are not system messages: what a later entry hook
\* may carry out of it.
NonSystem(items) == SelectSeq(items, LAMBDA item : ~IsSystemMessage(item))

\* C24: every run of the entry hook lengthens the entered agent's buffer by at
\* least one item and at most keep_last_n_messages + 1 = 7 items, whatever the
\* previous agent's buffer holds and however many handoffs came before.
C24_BoundedGrowth ==
    /\ KeepLastN + 1 = 7
    /\ [][pc = "enter" =>
              /\ Len(chat_ctx'[current_agent]) >= Len(chat_ctx[current_agent]) + 1
              /\ Len(chat_ctx'[current_agent]) <=
                     Len(chat_ctx[current_agent]) + KeepLastN + 1]_vars

\* C24 witness: an agent entered for the first time holds exactly seven items,
\* six of them carried out of a previous buffer that had more to offer.
C24_Witness ==
    /\ pc = "announce"
    /\ userdata.prev_agent # None
    /\ Cardinality(OwnEntries(current_agent)) = 1
    /\ Len(chat_ctx[current_agent]) = KeepLastN + 1
    /\ Len(NonSystem(chat_ctx[userdata.prev_agent[1]])) > KeepLastN

\* ------------------------------------------- two conversations (PairSpec)
\* The second conversation is the one started by the second call of entrypoint.
TwoConversations == peer # None

\* This step belongs to the conversation that is running: the event loop did
\* not pass control to the other one.
SameConversation == objects' = objects

\* C21: two conversations started by two calls of entrypoint hold no mutable
\* object in common, and no step of one of them (tool operation, handoff, entry
\* hook, announcement or turn) changes any UserData field, the registry or any
\* agent buffer of the other.
C21_ConversationsIsolated ==
    /\ [](TwoConversations =>
              \A what \in DOMAIN objects : objects[what] # peer[1].objects[what])
    /\ [][(TwoConversations /\ SameConversation) => peer' = peer]_vars

\* C21 witness: both conversations have run; one has searched, which appended
\* to its viewed list in place, while the other, already greeted and waiting
\* for its caller, still holds its empty list and its own buffers.
C21_Witness ==
    /\ TwoConversations
    /\ script = "realestate"
    /\ result.tool = "search_properties"
    /\ userdata.viewed_properties # <<>>
    /\ peer[1].userdata.viewed_properties = <<>>
    /\ peer[1].pc = "idle"
    /\ Len(peer[1].chat_ctx["Greeter"]) = 2
    /\ Len(chat_ctx["Greeter"]) > 2

\* ------------------------------------------ realtime models (RealtimeSpec)
\* The language model in force for an agent: its own if it was built with
\* one, else the session's.
EffectiveLLM(agent) ==
    IF AgentLLM(agent) # None THEN AgentLLM(agent)[1] ELSE session_llm

\* C25: when prev_agent is unset (the first agent of the session) or the
\* language model in force for the entered agent is a realtime model, the
\* entry hook copies nothing: the agent's buffer becomes what it was plus the
\* one system message, and no other buffer changes.
C25_NoCarryOverWithoutPrevOrRealtime ==
    [][(/\ pc = "enter"
        /\ userdata.prev_agent = None \/ EffectiveLLM(current_agent) = "RealtimeModel") =>
           chat_ctx' = [chat_ctx EXCEPT ![current_agent] =
                           Append(@, SystemMessage(next_id, current_agent,
                                                   Summarize(userdata)))]]_vars

\* C25 witness: under a realtime session an agent without a model of its own
\* was entered by a handoff; the previous agent's buffer held messages to
\* carry, and the entered agent holds its system message alone.
C25_Witness ==
    /\ pc = "announce"
    /\ userdata.prev_agent # None
    /\ EffectiveLLM(current_agent) = "RealtimeModel"
    /\ truncate_chat_ctx(chat_ctx[userdata.prev_agent[1]], KeepLastN, FALSE, TRUE) # <<>>
    /\ Len(chat_ctx[current_agent]) = 1
    /\ IsSystemMessage(chat_ctx[current_agent][1])

\* ------------------------------------------------ entry message (Spec)
\* The items a step has added to the end of the active agent's buffer.
Added ==
    SubSeq(chat_ctx'[current_agent], Len(chat_ctx[current_agent]) + 1,
           Len(chat_ctx'[current_agent]))

\* C26: every run of the entry hook adds exactly one system message; it is the
\* last item of the buffer the hook commits, after everything carried over;
\* it names the entered agent and holds the summary of UserData as it is when
\* the hook runs.
C26_OneEntryMessageLast ==
    [][pc = "enter" =>
           /\ Added # <<>>
           /\ Last(Added) = SystemMessage(next_id, current_agent, Summarize(userdata))
           /\ \A i \in 1..(Len(Added) - 1) : ~IsSystemMessage(Added[i])
           /\ Last(chat_ctx'[current_agent]) = Last(Added)]_vars

\* C26 witness: an agent was entered by a handoff after a tool stored a name;
\* its buffer ends with carried-over items followed by one system message
\* that names the agent and shows the stored name.
C26_Witness ==
    /\ pc = "announce"
    /\ userdata.prev_agent # None
    /\ userdata.customer_name = Some("Ada")
    /\ LET own == chat_ctx[current_agent]
       IN  /\ Len(own) >= 3
           /\ own[Len(own)] = SystemMessage(next_id - 1, current_agent, Summarize(userdata))
           /\ own[Len(own) - 1].id \in Ids(chat_ctx[userdata.prev_agent[1]])
           /\ Cardinality({i \in 1..Len(own) : IsSystemMessage(own[i])}) = 1

\* ------------------------------------ truncation applied twice (TruncSpec)
\* _truncate_chat_ctx applied, with the settings of the call, to what the call
\* returned.
TruncatedAgain ==
    truncate_chat_ctx(new_items, call.keep_last_n_messages,
                      call.keep_system_message, call.keep_function_call)

\* C28: for keep_last_n_messages >= 1 and every input and setting of the two
\* flags, truncating the result of _truncate_chat_ctx again with the same
\* settings returns it unchanged.
C28_TruncateIdempotent ==
    (Returned /\ call.keep_last_n_messages >= 1) => TruncatedAgain = new_items

\* C28 witness: a call that kept tool items, cut the input by the count and
\* dropped leading tool items, and whose result, holding a message followed by
\* a tool item, is left as it is by a second call.
C28_Witness ==
    /\ Returned
    /\ call.keep_function_call
    /\ Len(call.items) > call.keep_last_n_messages
    /\ Len(new_items) >= 2
    /\ Len(new_items) < call.keep_last_n_messages
    /\ \E i \in 1..Len(new_items) : IsToolItem(new_items[i])
    /\ TruncatedAgain = new_items

\* ------------------------------------- system messages stay home (Spec)
\* C29: a system message is never carried from one agent's buffer into
\* another's: every system message in an agent's buffer names that agent,
\* which wrote it in its own entry hook, and is held by no other buffer.
C29_SystemMessagesNotCarried ==
    \A a \in AllAgents : \A i \in 1..Len(chat_ctx[a]) :
        IsSystemMessage(chat_ctx[a][i]) =>
            /\ chat_ctx[a][i].content.agent = a
            /\ \A b \in AllAgents \ {a} : chat_ctx[a][i].id \notin Ids(chat_ctx[b])

\* C29 witness: an agent was entered by a handoff; the previous agent's six
\* most recent items include its system message, items after it were carried
\* over, and the system message was not.
C29_Witness ==
    /\ pc = "announce"
    /\ userdata.prev_agent # None
    /\ LET prev == chat_ctx[userdata.prev_agent[1]]
           own == chat_ctx[current_agent]
       IN  /\ \E i \in 1..Len(prev) :
                  /\ IsSystemMessage(prev[i])
                  /\ i > Len(prev) - KeepLastN
                  /\ prev[i].id \notin Ids(own)
                  /\ i < Len(prev)
                  /\ prev[i + 1].id \in Ids(own)

\* ------------------------------------------- no handoff to oneself (Spec)
\* C30: no handoff tool names the agent it belongs to: every handoff makes
\* another agent active than the one that ran the tool, so that right after
\* it, and until the next handoff, prev_agent differs from the active agent.
C30_NoSelfHandoff ==
    /\ [](userdata.prev_agent # Some(current_agent))
    /\ [][HandoffStep =>
              /\ current_agent' # current_agent
              /\ userdata'.prev_agent = Some(current_agent)
              /\ userdata'.prev_agent # Some(current_agent')]_vars

\* C30 witness: a handoff from one specialist to another has just been made;
\* the specialist left is the previous agent and the one entered is active.
C30_Witness ==
    /\ pc = "enter"
    /\ result.kind = "handoff"
    /\ current_agent = result.agent
    /\ userdata.prev_agent # None
    /\ userdata.prev_agent[1] \in SupportSpecialists \cup RealEstateSpecialists
    /\ current_agent \in SupportSpecialists \cup RealEstateSpecialists
    /\ userdata.prev_agent[1] # current_agent

\* ------------------------------------------------- handoff graph (Spec)
\* The results of the handoff tools each agent owns, on the UserData of the
\* current state.
HandoffToolsOf(agent) ==
    CASE agent = "InitialSupport" ->
             {InitialSupport_to_returns(userdata, agent),
              InitialSupport_to_technical(userdata, agent),
              InitialSupport_to_billing(userdata, agent),
              InitialSupport_to_manager(userdata, agent)}
      [] agent = "ReturnsAgent" ->
             {ReturnsAgent_to_initial(userdata, agent),
              ReturnsAgent_to_billing(userdata, agent),
              ReturnsAgent_to_manager(userdata, agent)}
      [] agent = "TechnicalAgent" ->
             {TechnicalAgent_to_initial(userdata, agent),
              TechnicalAgent_to_returns(userdata, agent)}
             \cup {escalate_technical_issue(userdata, agent, reason) :
                       reason \in EscalationReasonArgs}
      [] agent = "BillingAgent" ->
             {BillingAgent_to_initial(userdata, agent),
              BillingAgent_to_manager(userdata, agent)}
      [] agent = "ManagerAgent" ->
             {ManagerAgent_to_initial(userdata, agent),
              ManagerAgent_to_returns(userdata, agent),
              ManagerAgent_to_technical(userdata, agent),
              ManagerAgent_to_billing(userdata, agent)}
      [] agent = "Greeter" ->
             {Greeter_to_property_finder(userdata, agent),
              Greeter_to_viewing_scheduler(userdata, agent),
              Greeter_to_mortgage_advisor(userdata, agent)}
      [] agent = "PropertyFinder" ->
             {PropertyFinder_to_greeter(userdata, agent),
              PropertyFinder_to_viewing_scheduler(userdata, agent)}
      [] agent = "ViewingScheduler" ->
             {ViewingScheduler_to_greeter(userdata, agent),
              ViewingScheduler_to_mortgage_advisor(userdata, agent)}
      [] agent = "MortgageAdvisor" ->
             {MortgageAdvisor_to_greeter(userdata, agent),
              MortgageAdvisor_to_property_finder(userdata, agent)}

\* The agents a handoff tool of agent hands over to in the current state.
HandoffTargets(agent) ==
    {r.result.agent : r \in {t \in HandoffToolsOf(agent) : t.result.kind = "handoff"}}

\* The handoff graph of the current state: each registered agent with the
\* agents its tools hand over to.
HandoffGraph == [agent \in Registered |-> HandoffTargets(agent)]

\* The agents that can become active from those given by at most n handoffs
\* along the edges of graph.
RECURSIVE ReachableBy(_, _, _)
ReachableBy(graph, agents, n) ==
    IF n = 0 THEN agents
    ELSE ReachableBy(graph, agents \cup UNION {graph[a] : a \in agents \cap DOMAIN graph}, n - 1)

\* C31: the handoff graph of the agent set is strongly connected: from the
\* entry agent every registered agent can become active by handoff tools, and
\* from every registered agent the entry agent can; and every handoff the
\* session makes is an edge of that graph.
C31_HandoffGraphConnected ==
    /\ [](LET graph == HandoffGraph
               n == Cardinality(Registered)
           IN  /\ Registered \subseteq ReachableBy(graph, {EntryAgent}, n)
               /\ \A agent \in Registered : EntryAgent \in ReachableBy(graph, {agent}, n))
    /\ [][HandoffStep => current_agent' \in HandoffTargets(current_agent)]_vars

\* C31 witness: the session has left the entry agent, passed through two
\* specialists by their handoff tools and come back to the entry agent.
C31_Witness ==
    /\ pc = "announce"
    /\ current_agent = EntryAgent
    /\ Cardinality(OwnEntries(EntryAgent)) = 2
    /\ userdata.prev_agent # None
    /\ \E other \in Registered \ {EntryAgent, userdata.prev_agent[1]} :
           /\ OwnEntries(other) # {}
           /\ OwnEntries(userdata.prev_agent[1]) # {}

\* ------------------------------------ customer support: outcomes (Spec)
\* C32: whenever ManagerAgent is the active agent, escalated is true and
\* escalation_reason is set: every handoff tool that targets the manager sets
\* both and nothing resets them, so resolve_escalated_issue never takes its
\* 'no escalated issue' branch.
C32_ManagerImpliesEscalated ==
    /\ current_agent = "ManagerAgent" =>
           /\ userdata.escalated
           /\ userdata.escalation_reason # None
           /\ resolve_escalated_issue(userdata, "replacement", None).result.text #
                  "I'm not seeing any escalated issue in our system."
    /\ result.tool = "resolve_escalated_issue" =>
           result.text = "I understand this has been a frustrating experience"

\* C32 witness: the technical agent escalated with a reason of the caller's,
\* the manager became active and has resolved the issue.
C32_Witness ==
    /\ current_agent = "ManagerAgent"
    /\ result.tool = "resolve_escalated_issue"
    /\ userdata.escalated
    /\ userdata.escalation_reason = Some("not fixed by troubleshooting")
    /\ userdata.prev_agent = Some("TechnicalAgent")

\* C33: in the customer-support flow return_label_sent is true only if
\* return_approved is true and customer_email holds an address.
C33_LabelSentImpliesApprovedAndEmail ==
    (script = "support" /\ userdata.return_label_sent) =>
        /\ userdata.return_approved
        /\ Truthy(userdata.customer_email)

\* C33 witness: the returns agent recorded an email, approved the return and
\* sent the label.
C33_Witness ==
    /\ script = "support"
    /\ result.tool = "send_return_label"
    /\ userdata.return_label_sent
    /\ userdata.return_approved
    /\ userdata.customer_email = Some("ada@example.com")

\* ------------------------------------------- return flow (ReturnFlowSpec)
\* A customer-support conversation that stays between the front desk and the
\* returns desk, followed for MaxFlowItems items: long enough for the caller
\* to come back to the front desk after a return was approved.
ReturnFlowInit ==
    /\ entrypoint("support", SupportRegistry, "initial")
    /\ session_llm = "LLM"
    /\ peer = None
    /\ budget = MaxFlowItems

ReturnFlowNext == Next /\ current_agent' \in {"InitialSupport", "ReturnsAgent"}

ReturnFlowSpec == ReturnFlowInit /\ [][ReturnFlowNext]_vars

\* C34: in the customer-support flow, whenever return_approved is true the
\* product_id on record identifies a catalog product that is not a
\* subscription: the eligibility process_return checked still holds.
C34_ApprovedProductEligible ==
    (script = "support" /\ userdata.return_approved) =>
        /\ Truthy(userdata.product_id)
        /\ userdata.product_id[1] \in ProductIds \ SubscriptionIds

\* ------------------------------------------------- refund preconditions
\* C35: in the customer-support flow, refund_approved is true only if
\* order_number, customer_email and refund_amount are all populated (the two
\* strings non-empty, the amount set).
C35_RefundApprovedImpliesDetails ==
    (script = "support" /\ userdata.refund_approved) =>
        /\ Truthy(userdata.order_number)
        /\ Truthy(userdata.customer_email)
        /\ userdata.refund_amount # None

\* process_refund has just approved a refund, and the caller's details were
\* touched again afterwards by nothing: the record carries all three.
C35_Witness ==
    /\ script = "support"
    /\ current_agent = "BillingAgent"
    /\ result.tool = "process_refund"
    /\ userdata.refund_approved
    /\ userdata.refund_amount = Some(1299)
    /\ userdata.order_number = Some("ORD-1")
    /\ Truthy(userdata.customer_email)

\* ----------------------------------------------- the record accumulates
\* Fields holding an optional string: populated when the code's own test
\* (`if not userdata.customer_name`, `x or "unknown"`) finds a value.
StringFields(s) ==
    IF s = "support"
    THEN {"customer_name", "customer_email", "customer_phone", "order_number", "product_id",
          "issue_description", "return_reason", "escalation_reason"}
    ELSE {"customer_name", "customer_phone", "customer_email", "viewing_date", "viewing_time"}

\* Fields holding another optional value: populated when not None.
ValueFields(s) ==
    IF s = "support"
    THEN {"issue_type", "refund_amount", "satisfaction_rating", "prev_agent"}
    ELSE {"prequalified_amount", "prev_agent"}

Flags(s) ==
    IF s = "support"
    THEN {"return_approved", "return_label_sent", "refund_approved", "escalated"}
    ELSE {"prequalified"}

ListFields(s) ==
    IF s = "support" THEN {} ELSE {"viewed_properties", "interested_properties"}

\* Every field populated in before is populated in after, no flag went back
\* to false, no list got shorter, no preference was dropped.
Accumulates(s, before, after) ==
    /\ \A f \in StringFields(s) : Truthy(before[f]) => Truthy(after[f])
    /\ \A f \in ValueFields(s) : before[f] # None => after[f] # None
    /\ \A f \in Flags(s) : before[f] => after[f]
    /\ \A f \in ListFields(s) : Len(before[f]) <= Len(after[f])
    /\ s = "realestate" =>
           \A k \in DOMAIN before.property_preferences :
               before.property_preferences[k] # None => after.property_preferences[k] # None

\* C36: SessionState only accumulates: no tool operation, handoff or entry
\* hook resets a populated field to unset, and return_approved,
\* return_label_sent, refund_approved, escalated and prequalified never change
\* from true back to false.
C36_OnlyAccumulates == [][Accumulates(script, userdata, userdata')]_vars

\* ------------------------------------------------- viewing scheduler gate
\* C37: in the real-estate flow ViewingScheduler is never the active agent
\* while interested_properties is empty, and a viewing is never on record
\* without a property of interest.
C37_SchedulerNeedsInterest ==
    script = "realestate" =>
        /\ current_agent = "ViewingScheduler" => userdata.interested_properties # <<>>
        /\ userdata.viewing_date # None => userdata.interested_properties # <<>>

\* ------------------------------------------- contact details on record
\* C38: in the real-estate flow viewing_date is set only if customer_name and
\* customer_phone are populated, and prequalified is true only if
\* customer_name, customer_phone and customer_email are populated.
C38_ContactBeforeCommitment ==
    script = "realestate" =>
        /\ userdata.viewing_date # None =>
               Truthy(userdata.customer_name) /\ Truthy(userdata.customer_phone)
        /\ userdata.prequalified =>
               /\ Truthy(userdata.customer_name)
               /\ Truthy(userdata.customer_phone)
               /\ Truthy(userdata.customer_email)

\* ------------------------------------------ subscription sent to billing
\* The latest tool result is process_return's refusal of a subscription.
SubscriptionRefused ==
    /\ script = "support"
    /\ result.tool = "process_return"
    /\ result.text = "This appears to be a subscription service"

\* C39: when process_return is invoked with order_number and product_id set
\* and the product is a subscription, the return is not approved and the
\* conversation goes to billing: the reply that follows the refusal is made
\* with BillingAgent active.
C39_SubscriptionGoesToBilling ==
    [][/\ (ToolStep /\ SubscriptionRefused') => ~userdata'.return_approved
       /\ (SubscriptionRefused /\ pc = "llm" /\ pc' = "idle")
              => current_agent' = "BillingAgent"]_vars

====
